---- MODULE Spec2Model ----
(***************************************************************************)
(* Limit order book with price ladders backed by slab arenas.              *)
(* The state is the OrderBook of book.rs (two PriceTrees, the id map and   *)
(* the removed set); the operations are place_order, cancel_order and      *)
(* view_book_l2.  Slab arenas, the linked list and the price tree are      *)
(* modelled slot by slot so that handle recycling is part of the model.    *)
(***************************************************************************)
EXTENDS Integers, Sequences, FiniteSets, TLC

\* ---------------------------------------------------------------- bounds
MaxOrders == 3      \* number of Order::new calls explored
MaxPrice == 2       \* prices offered to place_order are 0..MaxPrice
MaxQty == 2         \* the largest quantity offered to place_order
MaxConns == 2       \* connections the server has accepted
MaxRequests == 3    \* requests the connections read in total
MaxPushes == 4      \* pushes onto the list driven on its own

\* u32 arithmetic wraps at 2^32; TLC's integers are 32-bit signed, so
\* the word is scaled to 16 bits (the quantities of Quantities stay far below
\* either; those of WideQuantities reach the top of the word)
U32_MODULUS == 65536

Prices == 0..MaxPrice
\* quantities offered: none, the smallest and the largest
Quantities == {0, 1, MaxQty}
OrderTypes == {"Bid", "Ask"}
\* place_order rejects on which of price and quantity is zero: among rejected
\* requests one non-zero value stands for all
ZeroOrOne == {0, 1}

\* ---------------------------------------------------------------- Option
None == <<>>
Some(v) == <<v>>
is_some(o) == o # <<>>
unwrap(o) == o[1]

\* ---------------------------------------------------------------- slab::Slab
\* entries are Occupied(val) or Vacant(next free key); keys are 0-based
Occupied(v) == [occupied |-> TRUE, val |-> Some(v), next |-> 0]
Vacant(n) == [occupied |-> FALSE, val |-> None, next |-> n]

Slab_new == [entries |-> <<>>, next |-> 0]

Slab_contains(s, key) ==
    /\ key \in 0..(Len(s.entries) - 1)
    /\ s.entries[key + 1].occupied

\* Slab::get / get_mut : Option<T>
Slab_get(s, key) ==
    IF Slab_contains(s, key) THEN s.entries[key + 1].val ELSE None

\* Slab::insert : the key handed out is the head of the free list
Slab_insert(s, v) ==
    LET key == s.next IN
    IF key = Len(s.entries)
    THEN [entries |-> Append(s.entries, Occupied(v)), next |-> key + 1]
    ELSE [entries |-> [s.entries EXCEPT ![key + 1] = Occupied(v)],
          next |-> s.entries[key + 1].next]

\* Slab::remove / try_remove on an occupied key : the slot heads the free list
Slab_remove(s, key) ==
    [entries |-> [s.entries EXCEPT ![key + 1] = Vacant(s.next)], next |-> key]

\* write through IndexMut / get_mut
Slab_set(s, key, v) ==
    [s EXCEPT !.entries[key + 1] = Occupied(v)]

Slab_keys(s) == {k \in 0..(Len(s.entries) - 1) : s.entries[k + 1].occupied}

\* ---------------------------------------------------------------- order.rs
Order_new(id, price, quantity, now) ==
    [id |-> id, quantity |-> quantity, price |-> price, created_at |-> now]

\* ---------------------------------------------------------------- linked_list.rs
\* (a node that is never given a prev link)
SlabNode_no_prev(value, prev_id, next_id) ==
    [value |-> value, prev_id |-> None, next_id |-> next_id]

SlabNode(value, prev_id, next_id) ==
    [value |-> value, prev_id |-> prev_id, next_id |-> next_id]

SlabLinkedList_new ==
    [front_id |-> None, back_id |-> None, len |-> 0, slab |-> Slab_new]

\* (an is_empty that never reports an empty list)
is_empty_never(ll) == FALSE

is_empty(ll) == ll.len = 0

\* results of the list operations: the list afterwards, the returned Option
\* and whether the call panicked
ListRet(ll, value, panic) == [list |-> ll, value |-> value, panic |-> panic]

pop_front(ll) ==
    IF ll.front_id = None /\ ll.back_id = None THEN ListRet(ll, None, FALSE)
    ELSE IF ll.front_id = None \/ ll.back_id = None THEN ListRet(ll, None, TRUE)
    ELSE
      LET front_id == unwrap(ll.front_id)
          back_id == unwrap(ll.back_id)
      IN
      IF ~Slab_contains(ll.slab, front_id) THEN ListRet(ll, None, TRUE)
      ELSE
        LET front_node == unwrap(Slab_get(ll.slab, front_id))
            s1 == Slab_remove(ll.slab, front_id)
        IN
        IF front_id = back_id
        THEN ListRet([front_id |-> None, back_id |-> None,
                      len |-> ll.len - 1, slab |-> s1],
                     Some(front_node.value), FALSE)
        ELSE IF front_node.next_id = None
                \/ ~Slab_contains(s1, unwrap(front_node.next_id))
        THEN ListRet([ll EXCEPT !.slab = s1], None, TRUE)
        ELSE
          LET next_id == unwrap(front_node.next_id)
              next_node == unwrap(Slab_get(s1, next_id))
              s2 == Slab_set(s1, next_id, [next_node EXCEPT !.prev_id = None])
          IN ListRet([front_id |-> Some(next_id), back_id |-> ll.back_id,
                      len |-> ll.len - 1, slab |-> s2],
                     Some(front_node.value), FALSE)

\* (a pop_back that takes the element at the front)
pop_back_takes_front(ll) == pop_front(ll)

pop_back(ll) ==
    IF ll.front_id = None /\ ll.back_id = None THEN ListRet(ll, None, FALSE)
    ELSE IF ll.front_id = None \/ ll.back_id = None THEN ListRet(ll, None, TRUE)
    ELSE
      LET front_id == unwrap(ll.front_id)
          back_id == unwrap(ll.back_id)
      IN
      IF ~Slab_contains(ll.slab, back_id) THEN ListRet(ll, None, TRUE)
      ELSE
        LET back_node == unwrap(Slab_get(ll.slab, back_id))
            s1 == Slab_remove(ll.slab, back_id)
        IN
        IF front_id = back_id
        THEN ListRet([front_id |-> None, back_id |-> None,
                      len |-> ll.len - 1, slab |-> s1],
                     Some(back_node.value), FALSE)
        ELSE IF back_node.prev_id = None
                \/ ~Slab_contains(s1, unwrap(back_node.prev_id))
        THEN ListRet([ll EXCEPT !.slab = s1], None, TRUE)
        ELSE
          LET prev_id == unwrap(back_node.prev_id)
              prev_node == unwrap(Slab_get(s1, prev_id))
              s2 == Slab_set(s1, prev_id, [prev_node EXCEPT !.next_id = None])
          IN ListRet([front_id |-> ll.front_id, back_id |-> Some(prev_id),
                      len |-> ll.len - 1, slab |-> s2],
                     Some(back_node.value), FALSE)

\* (a push_front that links the new node at the back of the queue)
push_front_at_back(ll, value) ==
    LET node_id == ll.slab.next IN
    IF is_some(ll.back_id)
    THEN
      LET back_id == unwrap(ll.back_id)
          s1 == Slab_insert(ll.slab, SlabNode(value, Some(back_id), None))
          back_node == unwrap(Slab_get(s1, back_id))
          s2 == Slab_set(s1, back_id, [back_node EXCEPT !.next_id = Some(node_id)])
      IN [list |-> [front_id |-> ll.front_id, back_id |-> Some(node_id),
                    len |-> ll.len + 1, slab |-> s2],
          node_id |-> node_id]
    ELSE
      LET s1 == Slab_insert(ll.slab, SlabNode(value, None, None))
      IN [list |-> [front_id |-> Some(node_id), back_id |-> Some(node_id),
                    len |-> ll.len + 1, slab |-> s1],
          node_id |-> node_id]

\* push_front returns the list and the node id handed out
push_front(ll, value) ==
    LET node_id == ll.slab.next IN
    IF is_some(ll.front_id)
    THEN
      LET front_id == unwrap(ll.front_id)
          s1 == Slab_insert(ll.slab, SlabNode(value, None, Some(front_id)))
          front_node == unwrap(Slab_get(s1, front_id))
          s2 == Slab_set(s1, front_id, [front_node EXCEPT !.prev_id = Some(node_id)])
      IN [list |-> [front_id |-> Some(node_id), back_id |-> ll.back_id,
                    len |-> ll.len + 1, slab |-> s2],
          node_id |-> node_id]
    ELSE
      LET s1 == Slab_insert(ll.slab, SlabNode(value, None, None))
      IN [list |-> [front_id |-> Some(node_id), back_id |-> Some(node_id),
                    len |-> ll.len + 1, slab |-> s1],
          node_id |-> node_id]

\* (a push_back that links the new node at the front of the queue)
push_back_at_front(ll, value) == push_front(ll, value)

\* push_back returns the list and the node id handed out
push_back(ll, value) ==
    LET node_id == ll.slab.next IN
    IF is_some(ll.back_id)
    THEN
      LET back_id == unwrap(ll.back_id)
          s1 == Slab_insert(ll.slab, SlabNode(value, Some(back_id), None))
          back_node == unwrap(Slab_get(s1, back_id))
          s2 == Slab_set(s1, back_id, [back_node EXCEPT !.next_id = Some(node_id)])
      IN [list |-> [front_id |-> ll.front_id, back_id |-> Some(node_id),
                    len |-> ll.len + 1, slab |-> s2],
          node_id |-> node_id]
    ELSE
      LET s1 == Slab_insert(ll.slab, SlabNode(value, None, None))
      IN [list |-> [front_id |-> Some(node_id), back_id |-> Some(node_id),
                    len |-> ll.len + 1, slab |-> s1],
          node_id |-> node_id]

\* (a remove that takes the front element whatever handle it is given)
remove_front_whatever(ll, node_id) == pop_front(ll)

remove(ll, node_id) ==
    IF is_some(ll.front_id) /\ is_some(ll.back_id)
    THEN
      IF unwrap(ll.front_id) = node_id THEN pop_front(ll)
      ELSE IF unwrap(ll.back_id) = node_id THEN pop_back(ll)
      ELSE
        IF Slab_contains(ll.slab, node_id)
        THEN
          LET removed_node == unwrap(Slab_get(ll.slab, node_id))
              s1 == Slab_remove(ll.slab, node_id)
          IN
          IF removed_node.next_id = None \/ removed_node.prev_id = None
          THEN ListRet([ll EXCEPT !.slab = s1], None, TRUE)
          ELSE
            LET next_id == unwrap(removed_node.next_id)
                prev_id == unwrap(removed_node.prev_id)
            IN
            IF ~Slab_contains(s1, prev_id) \/ ~Slab_contains(s1, next_id)
            THEN ListRet([ll EXCEPT !.slab = s1], None, TRUE)
            ELSE
              LET prev_node == unwrap(Slab_get(s1, prev_id))
                  s2 == Slab_set(s1, prev_id,
                                 [prev_node EXCEPT !.next_id = Some(next_id)])
                  next_node == unwrap(Slab_get(s2, next_id))
                  s3 == Slab_set(s2, next_id,
                                 [next_node EXCEPT !.prev_id = Some(prev_id)])
              IN ListRet([ll EXCEPT !.len = ll.len - 1, !.slab = s3],
                         Some(removed_node.value), FALSE)
        ELSE ListRet(ll, None, FALSE)
    ELSE ListRet(ll, None, FALSE)

\* get_mut : Option of the value in the slot (a reference the caller may
\* write through)
get_mut(ll, node_id) ==
    IF is_some(Slab_get(ll.slab, node_id))
    THEN Some(unwrap(Slab_get(ll.slab, node_id)).value)
    ELSE None

\* get : Option of the value in the slot
get(ll, node_id) ==
    IF Slab_contains(ll.slab, node_id)
    THEN Some(unwrap(Slab_get(ll.slab, node_id)).value)
    ELSE None

\* iter() run forward to exhaustion: the sequence of <<node_id, value>>
RECURSIVE SlabLinkedListIter_next(_, _, _)
SlabLinkedListIter_next(slab, next_id, next_back_id) ==
    IF is_some(next_id) /\ is_some(next_back_id)
    THEN
      LET node_id == unwrap(next_id)
          node == unwrap(Slab_get(slab, node_id))
      IN
      IF node_id = unwrap(next_back_id)
      THEN << <<node_id, node.value>> >>
      ELSE << <<node_id, node.value>> >>
             \o SlabLinkedListIter_next(slab, node.next_id, next_back_id)
    ELSE <<>>

linked_list_iter(ll) == SlabLinkedListIter_next(ll.slab, ll.front_id, ll.back_id)

\* iter() run backward to exhaustion with next_back()
RECURSIVE SlabLinkedListIter_next_back(_, _, _)
SlabLinkedListIter_next_back(slab, next_back_id, next_id) ==
    IF is_some(next_back_id) /\ is_some(next_id)
    THEN
      LET node_id == unwrap(next_back_id)
          node == unwrap(Slab_get(slab, node_id))
      IN
      IF node_id = unwrap(next_id)
      THEN << <<node_id, node.value>> >>
      ELSE << <<node_id, node.value>> >>
             \o SlabLinkedListIter_next_back(slab, node.prev_id, next_id)
    ELSE <<>>

linked_list_iter_rev(ll) ==
    SlabLinkedListIter_next_back(ll.slab, ll.back_id, ll.front_id)

\* ---------------------------------------------------------------- price_tree.rs
PriceNode(linked_list, price, total_quantity) ==
    [linked_list |-> linked_list, price |-> price, total_quantity |-> total_quantity]

\* PriceNode::num_orders : the running count of the node's queue
num_orders(price_node) == price_node.linked_list.len

\* (a key built with its two slot numbers exchanged)
OrderKey_new_swapped(price_node_id, linked_list_node_id) ==
    [price_node_id |-> linked_list_node_id, linked_list_node_id |-> price_node_id]

OrderKey_new(price_node_id, linked_list_node_id) ==
    [price_node_id |-> price_node_id, linked_list_node_id |-> linked_list_node_id]

\* tree : BTreeMap<u32, usize> as a function on the prices present
PriceTree_new == [tree |-> [p \in {} |-> 0], slab |-> Slab_new]

BTreeMap_insert(tree, k, v) ==
    [p \in (DOMAIN tree) \cup {k} |-> IF p = k THEN v ELSE tree[p]]

BTreeMap_remove(tree, k) ==
    [p \in (DOMAIN tree) \ {k} |-> tree[p]]

\* (a -= with its operands exchanged)
SubU32_swapped(a, b) == (b - a + U32_MODULUS) % U32_MODULUS

\* (a -= that leaves the total as it was)
SubU32_forgotten(a, b) == a

\* u32 += and -= (wrapping)
AddU32(a, b) == (a + b) % U32_MODULUS
SubU32(a, b) == (a - b + U32_MODULUS) % U32_MODULUS

\* insert_order returns the tree and the OrderKey handed out
insert_order(pt, order) ==
    LET price == order.price IN
    IF price \in DOMAIN pt.tree
    THEN
      LET price_node_id == pt.tree[price]
          price_node == unwrap(Slab_get(pt.slab, price_node_id))
          pushed == push_back(price_node.linked_list, order)
          node1 == PriceNode(pushed.list, price_node.price,
                             AddU32(price_node.total_quantity, order.quantity))
      IN [tree |-> [pt EXCEPT !.slab = Slab_set(pt.slab, price_node_id, node1)],
          key |-> OrderKey_new(price_node_id, pushed.node_id)]
    ELSE
      LET pushed == push_back(SlabLinkedList_new, order)
          price_node == PriceNode(pushed.list, price, order.quantity)
          price_node_id == pt.slab.next
      IN [tree |-> [tree |-> BTreeMap_insert(pt.tree, price, price_node_id),
                    slab |-> Slab_insert(pt.slab, price_node)],
          key |-> OrderKey_new(price_node_id, pushed.node_id)]

\* results of the fallible tree operations: the tree afterwards, Ok or Err,
\* and whether the call panicked inside the linked list
TreeRet(pt, ok, panic) == [tree |-> pt, ok |-> ok, panic |-> panic]

\* remove_order once the price node is found: removed is what the node's
\* linked_list.remove(key.linked_list_node_id) returned
remove_order_in_node(pt, key, price_node, removed) ==
    IF removed.panic
    THEN TreeRet([pt EXCEPT !.slab =
                    Slab_set(pt.slab, key.price_node_id,
                             [price_node EXCEPT !.linked_list = removed.list])],
                 FALSE, TRUE)
    ELSE IF is_some(removed.value)
    THEN
      IF is_empty(removed.list)
      THEN TreeRet([tree |-> BTreeMap_remove(pt.tree, unwrap(removed.value).price),
                    slab |-> Slab_remove(pt.slab, key.price_node_id)],
                   TRUE, FALSE)
      ELSE TreeRet([pt EXCEPT !.slab =
                      Slab_set(pt.slab, key.price_node_id,
                               [price_node EXCEPT
                                  !.linked_list = removed.list,
                                  !.total_quantity =
                                     SubU32(price_node.total_quantity,
                                            unwrap(removed.value).quantity)])],
                   TRUE, FALSE)
    ELSE TreeRet(pt, FALSE, FALSE)

remove_order(pt, key) ==
    IF Slab_contains(pt.slab, key.price_node_id)
    THEN remove_order_in_node(pt, key,
                              unwrap(Slab_get(pt.slab, key.price_node_id)),
                              remove(unwrap(Slab_get(pt.slab, key.price_node_id)).linked_list,
                                     key.linked_list_node_id))
    ELSE TreeRet(pt, FALSE, FALSE)

update_order_quantity(pt, key, quantity) ==
    IF Slab_contains(pt.slab, key.price_node_id)
    THEN
      LET price_node == unwrap(Slab_get(pt.slab, key.price_node_id))
          ll == price_node.linked_list
      IN
      IF Slab_contains(ll.slab, key.linked_list_node_id)
      THEN
        LET node == unwrap(Slab_get(ll.slab, key.linked_list_node_id))
            node1 == [node EXCEPT !.value.quantity = quantity]
            ll1 == [ll EXCEPT !.slab = Slab_set(ll.slab, key.linked_list_node_id, node1)]
        IN TreeRet([pt EXCEPT !.slab =
                      Slab_set(pt.slab, key.price_node_id,
                               [price_node EXCEPT !.linked_list = ll1])],
                   TRUE, FALSE)
      ELSE TreeRet(pt, FALSE, FALSE)
    ELSE TreeRet(pt, FALSE, FALSE)

\* PriceTree::get_order : Option<&Order>
get_order(pt, key) ==
    IF Slab_contains(pt.slab, key.price_node_id)
    THEN get(unwrap(Slab_get(pt.slab, key.price_node_id)).linked_list,
             key.linked_list_node_id)
    ELSE None

\* the keys of the BTreeMap in ascending order
RECURSIVE BTreeMap_iter(_)
BTreeMap_iter(keys) ==
    IF keys = {} THEN <<>>
    ELSE LET k == CHOOSE x \in keys : \A y \in keys : x <= y
         IN <<k>> \o BTreeMap_iter(keys \ {k})

Reverse(s) == [i \in 1..Len(s) |-> s[Len(s) + 1 - i]]

\* PriceTreeIterator run with next() : <<node_id, price_node>> in ascending price
price_tree_iter(pt) ==
    LET ks == BTreeMap_iter(DOMAIN pt.tree)
    IN [i \in 1..Len(ks) |-> <<pt.tree[ks[i]], unwrap(Slab_get(pt.slab, pt.tree[ks[i]]))>>]

\* PriceTreeIterator run with next_back() : descending price
price_tree_iter_rev(pt) == Reverse(price_tree_iter(pt))

\* ---------------------------------------------------------------- book.rs
OrderBook_new ==
    [bid_tree |-> PriceTree_new,
     ask_tree |-> PriceTree_new,
     order_id_map |-> [i \in {} |-> 0],
     order_removed_set |-> {}]

HashMap_insert(m, k, v) == [i \in (DOMAIN m) \cup {k} |-> IF i = k THEN v ELSE m[i]]

\* (a remove that leaves the entry in the map)
HashMap_remove_forgotten(m, k) == m

HashMap_remove(m, k) == [i \in (DOMAIN m) \ {k} |-> m[i]]

\* (a removed set that keeps only the latest id)
HashSet_insert_latest_only(set, v) == {v}

HashSet_insert(set, v) == set \cup {v}

MatchOutcome(remaining_quantity, full_order, partial_order) ==
    [remaining_quantity |-> remaining_quantity,
     full_order |-> full_order,
     partial_order |-> partial_order]

\* (a partial match recorded with nothing left of the resting order)
PartialOrderMatch_nothing_left(order_key, remaining_quantity) ==
    [order_key |-> order_key, remaining_quantity |-> 0]

PartialOrderMatch(order_key, remaining_quantity) ==
    [order_key |-> order_key, remaining_quantity |-> remaining_quantity]

\* the tree iterator find_matching_orders drives: next() over the bid tree
\* for an Ask, next_back() over the ask tree for a Bid
tree_iter(book, order_type) ==
    IF order_type = "Ask"
    THEN price_tree_iter(book.bid_tree)
    ELSE price_tree_iter_rev(book.ask_tree)

\* (the test with its two comparisons exchanged)
price_matches_swapped(price_node, incoming_order, order_type) ==
    IF order_type = "Ask"
    THEN price_node.price <= incoming_order.price
    ELSE price_node.price >= incoming_order.price

\* the test that lets the walk continue into a price node
price_matches(price_node, incoming_order, order_type) ==
    IF order_type = "Ask"
    THEN price_node.price >= incoming_order.price
    ELSE price_node.price <= incoming_order.price

\* (a partial match that records the resting order's whole quantity as what
\*  remains of it)
match_order_keeps_quantity(existing_order, order_key, out) ==
    IF existing_order.quantity <= out.remaining_quantity
    THEN MatchOutcome(out.remaining_quantity - existing_order.quantity,
                      Append(out.full_order, <<existing_order.id, order_key>>),
                      out.partial_order)
    ELSE MatchOutcome(0,
                      out.full_order,
                      Some(PartialOrderMatch(order_key, existing_order.quantity)))

\* (a match that takes a resting order whole only when it is strictly smaller
\*  than what remains)
match_order_strict(existing_order, order_key, out) ==
    IF existing_order.quantity < out.remaining_quantity
    THEN MatchOutcome(out.remaining_quantity - existing_order.quantity,
                      Append(out.full_order, <<existing_order.id, order_key>>),
                      out.partial_order)
    ELSE MatchOutcome(0,
                      out.full_order,
                      Some(PartialOrderMatch(order_key,
                             existing_order.quantity - out.remaining_quantity)))

\* (a partial match that leaves the incoming order's remaining quantity as it
\*  was, so that the walk goes on)
match_order_keeps_remaining(existing_order, order_key, out) ==
    IF existing_order.quantity <= out.remaining_quantity
    THEN MatchOutcome(out.remaining_quantity - existing_order.quantity,
                      Append(out.full_order, <<existing_order.id, order_key>>),
                      out.partial_order)
    ELSE MatchOutcome(out.remaining_quantity,
                      out.full_order,
                      Some(PartialOrderMatch(order_key,
                             existing_order.quantity - out.remaining_quantity)))

\* one resting order against what remains of the incoming order: a full match
\* when it fits, else the partial match that ends the walk
match_order(existing_order, order_key, out) ==
    IF existing_order.quantity <= out.remaining_quantity
    THEN MatchOutcome(out.remaining_quantity - existing_order.quantity,
                      Append(out.full_order, <<existing_order.id, order_key>>),
                      out.partial_order)
    ELSE MatchOutcome(0,
                      out.full_order,
                      Some(PartialOrderMatch(order_key,
                             existing_order.quantity - out.remaining_quantity)))

\* the for loop over one price node's orders, oldest to newest;
\* returned marks the early return on remaining_quantity == 0
RECURSIVE match_price_node(_, _, _, _)
match_price_node(items, j, price_node_id, out) ==
    IF j > Len(items) THEN [outcome |-> out, returned |-> FALSE]
    ELSE
      LET linked_list_node_id == items[j][1]
          existing_order == items[j][2]
          order_key == OrderKey_new(price_node_id, linked_list_node_id)
          out1 == match_order(existing_order, order_key, out)
      IN
      IF out1.remaining_quantity = 0
      THEN [outcome |-> out1, returned |-> TRUE]
      ELSE match_price_node(items, j + 1, price_node_id, out1)

\* the outer loop over price nodes; stops at the first node that does not match
RECURSIVE match_loop(_, _, _, _, _)
match_loop(nodes, i, incoming_order, order_type, out) ==
    IF i > Len(nodes) THEN out
    ELSE
      LET price_node_id == nodes[i][1]
          price_node == nodes[i][2]
      IN
      IF price_matches(price_node, incoming_order, order_type)
      THEN
        LET r == match_price_node(linked_list_iter(price_node.linked_list), 1,
                                  price_node_id, out)
        IN IF r.returned THEN r.outcome
           ELSE match_loop(nodes, i + 1, incoming_order, order_type, r.outcome)
      ELSE out

find_matching_orders(book, incoming_order, order_type) ==
    match_loop(tree_iter(book, order_type), 1, incoming_order, order_type,
               MatchOutcome(incoming_order.quantity, <<>>, None))

resting_order_type(order_type) == IF order_type = "Ask" THEN "Bid" ELSE "Ask"

\* (a line that prints the quantity where the price belongs)
LogLine_priced_at_quantity(order_type, id, qty, price) ==
    [order_type |-> order_type, id |-> id, qty |-> qty, price |-> qty]

LogLine(order_type, id, qty, price) ==
    [order_type |-> order_type, id |-> id, qty |-> qty, price |-> price]

\* the clearing-house lines place_order prints: the aggressor's line, one line
\* per fully matched order, then the partially matched order's line.
\* lines |-> what was printed, panic |-> a get_order(..).unwrap() failed
clearing_house_log(tree_to_remove, order, order_type, match_outcome) ==
    IF match_outcome.remaining_quantity = order.quantity
    THEN [lines |-> <<>>, panic |-> FALSE]
    ELSE
      LET filled_quantity == order.quantity - match_outcome.remaining_quantity
          head == <<LogLine(order_type, order.id, filled_quantity, order.price)>>
          full == match_outcome.full_order
          full_ok == \A k \in 1..Len(full) : is_some(get_order(tree_to_remove, full[k][2]))
          full_lines ==
            [k \in 1..Len(full) |->
               LET filled_order == unwrap(get_order(tree_to_remove, full[k][2]))
               IN LogLine(resting_order_type(order_type), filled_order.id,
                          filled_order.quantity, filled_order.price)]
          partial == match_outcome.partial_order
          partial_ok ==
            partial = None \/ is_some(get_order(tree_to_remove, unwrap(partial).order_key))
          partial_lines ==
            IF partial = None THEN <<>>
            ELSE
              LET partial_filled_order ==
                    unwrap(get_order(tree_to_remove, unwrap(partial).order_key))
                  partial_quantity ==
                    partial_filled_order.quantity - unwrap(partial).remaining_quantity
              IN <<LogLine(resting_order_type(order_type), partial_filled_order.id,
                           partial_quantity, partial_filled_order.price)>>
      IN
      IF full_ok /\ partial_ok
      THEN [lines |-> head \o full_lines \o partial_lines, panic |-> FALSE]
      ELSE [lines |-> head, panic |-> TRUE]

\* results of the book operations; err is the message of an Err ("" for Ok and
\* for a panic)
BookRet(book, ok, order_id, lines, panic) ==
    [book |-> book, ok |-> ok, order_id |-> order_id, lines |-> lines, panic |-> panic,
     err |-> ""]

\* return Err(anyhow!(err))
BookErr(book, order_id, err) ==
    [BookRet(book, FALSE, order_id, <<>>, FALSE) EXCEPT !.err = err]

OwnTree(book, order_type) ==
    IF order_type = "Ask" THEN book.ask_tree ELSE book.bid_tree

OppositeTree(book, order_type) ==
    IF order_type = "Ask" THEN book.bid_tree ELSE book.ask_tree

WithOwn(book, order_type, tree) ==
    IF order_type = "Ask" THEN [book EXCEPT !.ask_tree = tree]
    ELSE [book EXCEPT !.bid_tree = tree]

WithOpposite(book, order_type, tree) ==
    IF order_type = "Ask" THEN [book EXCEPT !.bid_tree = tree]
    ELSE [book EXCEPT !.ask_tree = tree]

\* one turn of the loop over full_order, r being what remove_order returned:
\* a failed unwrap leaves the book as it is at that point
RECURSIVE remove_full_orders(_, _, _, _)
remove_full_order(book, order_type, full_order, k, r) ==
    IF ~r.ok
    THEN [book |-> WithOpposite(book, order_type, r.tree), panic |-> TRUE]
    ELSE remove_full_orders(
           [WithOpposite(book, order_type, r.tree) EXCEPT
              !.order_id_map = HashMap_remove(@, full_order[k][1]),
              !.order_removed_set = HashSet_insert(@, full_order[k][1])],
           order_type, full_order, k + 1)

\* the loop that removes the fully matched orders from the opposite tree and
\* the id map and records them in the removed set
remove_full_orders(book, order_type, full_order, k) ==
    IF k > Len(full_order)
    THEN [book |-> book, panic |-> FALSE]
    ELSE remove_full_order(book, order_type, full_order, k,
                           remove_order(OppositeTree(book, order_type), full_order[k][2]))

\* (an end of place_order that rests the order without entering it in the
\*  id map)
place_order_rest_unindexed(book, order, order_type, lines, ins) ==
    IF order.quantity > 0
    THEN BookRet(WithOwn(book, order_type, ins.tree), TRUE, order.id, lines, FALSE)
    ELSE BookRet([book EXCEPT !.order_removed_set = HashSet_insert(@, order.id)],
                 TRUE, order.id, lines, FALSE)

\* the end of place_order: the incoming order takes what remains as its
\* quantity and rests on its own tree, or goes to the removed set
place_order_rest(book, order, order_type, lines, ins) ==
    IF order.quantity > 0
    THEN BookRet([WithOwn(book, order_type, ins.tree) EXCEPT
                    !.order_id_map =
                       HashMap_insert(@, order.id,
                                      [order_type |-> order_type,
                                       order_key |-> ins.key])],
                 TRUE, order.id, lines, FALSE)
    ELSE BookRet([book EXCEPT !.order_removed_set = HashSet_insert(@, order.id)],
                 TRUE, order.id, lines, FALSE)

\* place_order after the partial update, upd being what it returned
place_order_updated(book, order, order_type, match_outcome, lines, upd) ==
    IF ~upd.ok
    THEN BookRet(WithOpposite(book, order_type, upd.tree), FALSE, 0, lines, TRUE)
    ELSE place_order_rest(
           WithOpposite(book, order_type, upd.tree),
           [order EXCEPT !.quantity = match_outcome.remaining_quantity],
           order_type, lines,
           insert_order(OwnTree(book, order_type),
                        [order EXCEPT !.quantity = match_outcome.remaining_quantity]))

\* place_order after the loop over full_order, rm being the loop's outcome
place_order_removed(order, order_type, match_outcome, lines, rm) ==
    IF rm.panic THEN BookRet(rm.book, FALSE, 0, lines, TRUE)
    ELSE place_order_updated(
           rm.book, order, order_type, match_outcome, lines,
           IF match_outcome.partial_order = None
           THEN TreeRet(OppositeTree(rm.book, order_type), TRUE, FALSE)
           ELSE update_order_quantity(OppositeTree(rm.book, order_type),
                                      unwrap(match_outcome.partial_order).order_key,
                                      unwrap(match_outcome.partial_order).remaining_quantity))

\* place_order after the clearing-house lines, log being what was printed
place_order_logged(book, order, order_type, match_outcome, log) ==
    IF log.panic THEN BookRet(book, FALSE, 0, log.lines, TRUE)
    ELSE place_order_removed(order, order_type, match_outcome, log.lines,
                             remove_full_orders(book, order_type,
                                                match_outcome.full_order, 1))

\* place_order once the order is constructed and the match is found
place_order_matched(book, order, order_type, match_outcome) ==
    place_order_logged(book, order, order_type, match_outcome,
                       clearing_house_log(OppositeTree(book, order_type), order,
                                          order_type, match_outcome))

\* (a place_order without its check of price and quantity)
place_order_unchecked(book, price, quantity, order_type, uuid, now) ==
    place_order_matched(book, Order_new(uuid, price, quantity, now), order_type,
                        find_matching_orders(book,
                                             Order_new(uuid, price, quantity, now),
                                             order_type))

\* place_order; uuid and now are what Uuid::new_v4() and Instant::now() return
place_order(book, price, quantity, order_type, uuid, now) ==
    IF quantity = 0 \/ price = 0
    THEN BookErr(book, 0, "Price or quantity should be bigger than 0")
    ELSE place_order_matched(book, Order_new(uuid, price, quantity, now), order_type,
                             find_matching_orders(book,
                                                  Order_new(uuid, price, quantity, now),
                                                  order_type))

\* cancel_order once the id is found in the id map, r being what remove_order
\* returned; the function ends in Err on every path
cancel_order_found(book, order_id, order_type, r) ==
    IF ~r.ok
    THEN BookRet(WithOwn(book, order_type, r.tree), FALSE, order_id, <<>>, TRUE)
    ELSE BookErr([WithOwn(book, order_type, r.tree) EXCEPT
                    !.order_id_map = HashMap_remove(@, order_id),
                    !.order_removed_set = HashSet_insert(@, order_id)],
                 order_id, "Order annot be found")

\* (a cancel_order without its look at the removed set)
cancel_order_unguarded(book, order_id) ==
    IF order_id \in DOMAIN book.order_id_map
    THEN cancel_order_found(book, order_id, book.order_id_map[order_id].order_type,
                            remove_order(OwnTree(book, book.order_id_map[order_id].order_type),
                                         book.order_id_map[order_id].order_key))
    ELSE BookErr(book, order_id, "Order annot be found")

cancel_order(book, order_id) ==
    IF order_id \in book.order_removed_set
    THEN BookErr(book, order_id, "Order is already removed from the book")
    ELSE IF order_id \in DOMAIN book.order_id_map
    THEN cancel_order_found(book, order_id, book.order_id_map[order_id].order_type,
                            remove_order(OwnTree(book, book.order_id_map[order_id].order_type),
                                         book.order_id_map[order_id].order_key))
    ELSE BookErr(book, order_id, "Order annot be found")

L2Entry(price_node) ==
    [price |-> price_node.price,
     total_quantity |-> price_node.total_quantity,
     num_orders |-> num_orders(price_node)]

L2Book(bid, ask) == [bid |-> bid, ask |-> ask]

view_book_l2(book) ==
    LET bids == price_tree_iter(book.bid_tree)
        asks == price_tree_iter(book.ask_tree)
    IN L2Book([i \in 1..Len(bids) |-> L2Entry(bids[i][2])],
              [i \in 1..Len(asks) |-> L2Entry(asks[i][2])])

\* ---------------------------------------------------------------- state
VARIABLES
    book,       \* the OrderBook behind the server's lock
    minted,     \* number of Order::new calls so far (ids and instants handed out)
    ret,        \* what the latest operation was called with and returned
    fills,      \* the clearing-house lines the latest operation printed
    panicked,   \* an unwrap inside an operation failed
    lock,       \* the RwLock around the book: who holds write and read guards
    pc,         \* per connection, where its process_socket task stands
    cur,        \* per connection, the request in hand and the locals of its arm
    nread,      \* the number of requests the connections have read so far
    unanswered, \* per connection, requests read less responses written
    stdout,     \* the lines printed so far, each with the order that printed it
    serial,     \* the book of the requests run one by one in the order in
                \* which they acquired the lock
    list,       \* a SlabLinkedList driven on its own, through its public methods
    handles,    \* the <<node id, value>> pairs the pushes returned and no pop or
                \* remove has given back, front to back
    issued,     \* every <<node id, value>> pair a push has returned
    lret,       \* what the latest method of the list was called with and returned
    tree,       \* a PriceTree driven on its own, through its public methods
    tminted,    \* the number of orders inserted into that tree so far
    tret        \* what the latest method of the tree was called with and returned

\* what the connection tasks add to the state
svars == <<lock, pc, cur, nread, unanswered, stdout, serial>>

\* what the list driven on its own adds to the state
lvars == <<list, handles, issued, lret>>

\* what the tree driven on its own adds to the state
tvars == <<tree, tminted, tret>>

\* the state of the structures driven on their own
qvars == <<list, handles, issued, lret, tree, tminted, tret>>

\* the book and what its latest operation returned
bvars == <<book, minted, ret, fills, panicked>>

vars == <<book, minted, ret, fills, panicked, lock, pc, cur, nread, unanswered, stdout, serial,
          list, handles, issued, lret, tree, tminted, tret>>

Conns == 1..MaxConns

\* requests (req.rs) and responses (resp.rs) as records of one shape
Request(kind, order_type, price, quantity, order_id) ==
    [kind |-> kind, order_type |-> order_type, price |-> price,
     quantity |-> quantity, order_id |-> order_id]

PlaceOrder(order_type, price, quantity) ==
    Request("PlaceOrder", order_type, price, quantity, 0)
CancelOrder(order_id) == Request("CancelOrder", "Bid", 0, 0, order_id)
ViewL2BookRequest == Request("ViewL2Book", "Bid", 0, 0, 0)
NoRequest == Request("", "Bid", 0, 0, 0)

EmptyL2 == L2Book(<<>>, <<>>)

Response(kind, order_id, l2) == [kind |-> kind, order_id |-> order_id, l2 |-> l2]
NoResponse == Response("", 0, EmptyL2)

\* the locals of a task between two requests
Idle == [req |-> NoRequest, uuid |-> 0, lines |-> <<>>,
         outcome |-> MatchOutcome(0, <<>>, None), left |-> 0,
         resp |-> NoResponse, serial_l2 |-> EmptyL2]

\* the RwLock with no guard out
RwLock_new == [writers |-> {}, readers |-> {}]

\* op, ok, order_id : the operation and its Result (order_id is the id returned,
\*   or the id a cancel was asked for);
\* price, quantity, order_type : the order that place_order accepted
\*   (0, 0, "Bid" when it accepted none);  l2 : the L2Book returned;
\* err : the message of the Err returned ("" when there is none)
Ret(op, ok, order_id, price, quantity, order_type, l2) ==
    [op |-> op, ok |-> ok, order_id |-> order_id, price |-> price,
     quantity |-> quantity, order_type |-> order_type, l2 |-> l2, err |-> ""]

\* op : the method of the list; node_id : the handle it was called with or
\* returned; value : the Option it returned (None for a push);
\* panic : the call panicked
LRet(op, node_id, value, panic) ==
    [op |-> op, node_id |-> node_id, value |-> value, panic |-> panic]

\* op : the method of the tree; ok : it returned Ok (an OrderKey, for
\* insert_order); panic : the call panicked
TRet(op, ok, panic) == [op |-> op, ok |-> ok, panic |-> panic]

Init ==
    /\ book = OrderBook_new
    /\ minted = 0
    /\ ret = Ret("new", TRUE, 0, 0, 0, "Bid", EmptyL2)
    /\ fills = <<>>
    /\ panicked = FALSE
    /\ lock = RwLock_new
    /\ pc = [c \in Conns |-> "read"]
    /\ cur = [c \in Conns |-> Idle]
    /\ nread = 0
    /\ unanswered = [c \in Conns |-> 0]
    /\ stdout = <<>>
    /\ serial = [book |-> OrderBook_new, minted |-> 0]
    /\ list = SlabLinkedList_new
    /\ handles = <<>>
    /\ issued = {}
    /\ lret = LRet("new", 0, None, FALSE)
    /\ tree = PriceTree_new
    /\ tminted = 0
    /\ tret = TRet("new", TRUE, FALSE)

\* the server's state after an operation that returned r
Returned(op, r, price, quantity, order_type) ==
    /\ book' = r.book
    /\ ret' = [Ret(op, r.ok, r.order_id, price, quantity, order_type, EmptyL2)
                 EXCEPT !.err = r.err]
    /\ fills' = r.lines
    /\ panicked' = (panicked \/ r.panic)
    /\ UNCHANGED svars
    /\ UNCHANGED qvars

\* a PlaceOrder request that place_order rejects
PlaceRejected(price, quantity, order_type) ==
    /\ quantity = 0 \/ price = 0
    /\ Returned("place_order",
                place_order(book, price, quantity, order_type, minted + 1, minted + 1),
                0, 0, "Bid")
    /\ UNCHANGED minted

\* a PlaceOrder request that constructs an Order
Place(price, quantity, order_type) ==
    /\ quantity # 0 /\ price # 0
    /\ minted < MaxOrders
    /\ Returned("place_order",
                place_order(book, price, quantity, order_type, minted + 1, minted + 1),
                price, quantity, order_type)
    /\ minted' = minted + 1

\* ids a client can name in a CancelOrder request: the ids returned so far and
\* one (0) that place_order never returns
Uuids == 0..minted

Cancel(order_id) ==
    /\ Returned("cancel_order", cancel_order(book, order_id), 0, 0, "Bid")
    /\ UNCHANGED minted

ViewL2Book ==
    /\ ret' = Ret("view_book_l2", TRUE, 0, 0, 0, "Bid", view_book_l2(book))
    /\ fills' = <<>>
    /\ UNCHANGED <<book, minted, panicked>>
    /\ UNCHANGED svars
    /\ UNCHANGED qvars

Next ==
    \/ \E price \in ZeroOrOne, quantity \in ZeroOrOne, order_type \in OrderTypes :
          PlaceRejected(price, quantity, order_type)
    \/ \E price \in Prices, quantity \in Quantities, order_type \in OrderTypes :
          Place(price, quantity, order_type)
    \/ \E order_id \in Uuids : Cancel(order_id)
    \/ ViewL2Book

Spec == Init /\ [][Next]_vars

\* the concatenation of a sequence of sequences
RECURSIVE Flatten(_)
Flatten(ss) == IF ss = <<>> THEN <<>> ELSE Head(ss) \o Flatten(Tail(ss))

\* ---------------------------------------------------------------- bin/server.rs
\* main spawns one process_socket task per connection; the tasks share the
\* book behind one RwLock.  A task stands at
\*   "read"   awaiting read_msg,
\*   "lock"   awaiting book.read() / book.write(),
\*   "call"   guard in hand, about to call the book,
\*   "log"    inside place_order, printing the clearing-house lines,
\*   "update" inside place_order, the fully matched orders removed,
\*   "rest"   inside place_order, the partially matched order updated,
\*   "write"  awaiting write_msg (the guard is still in scope),
\*   "closed" returned after read_msg failed,
\*   "aborted" panicked on a failed write_msg.

\* (a read lock granted whatever guards are out)
can_read_always(l) == TRUE

\* RwLock::read is granted while no write guard is out
can_read(l) == l.writers = {}

\* (a write lock granted whatever guards are out)
can_write_always(l) == TRUE

\* RwLock::write is granted while no guard is out
can_write(l) == l.writers = {} /\ l.readers = {}

\* the guard of connection c is dropped
drop_guard(l, c) == [writers |-> l.writers \ {c}, readers |-> l.readers \ {c}]

\* the requests a client sends: places that rest or cross at one price and one
\* that is rejected, cancels of the ids handed out so far and of an id never
\* handed out, and the view
ClientPlaces == {<<1, 1>>, <<1, MaxQty>>, <<0, 1>>}

ClientRequests ==
    {PlaceOrder(t, pq[1], pq[2]) : t \in OrderTypes, pq \in ClientPlaces}
      \cup {CancelOrder(order_id) : order_id \in Uuids}
      \cup {ViewL2BookRequest}

\* the requests run one by one: what the book becomes when req is run on it
run_serial(sb, req) ==
    IF req.kind = "CancelOrder"
    THEN [sb EXCEPT !.book = cancel_order(sb.book, req.order_id).book]
    ELSE IF req.kind = "PlaceOrder" /\ req.price # 0 /\ req.quantity # 0
    THEN [book |-> place_order(sb.book, req.price, req.quantity, req.order_type,
                               sb.minted + 1, sb.minted + 1).book,
          minted |-> sb.minted + 1]
    ELSE sb

\* (a response to a cancel that is tagged as a response to a place)
CancelResponse_as_place(ok) == Response("PlacErr", 0, EmptyL2)

\* the response the CancelOrder arm writes
CancelResponse(ok) ==
    Response(IF ok THEN "CancelOk" ELSE "CancelErr", 0, EmptyL2)

\* the response the PlaceOrder arm writes
PlaceResponse(ok, order_id) ==
    IF ok THEN Response("PlaceOk", order_id, EmptyL2)
    ELSE Response("PlacErr", 0, EmptyL2)

\* the markers println! puts around the clearing-house lines
Marker(text) == LogLine(text, 0, 0, 0)

clearing_house_block(lines) ==
    IF lines = <<>> THEN <<>>
    ELSE <<Marker("== Clearing House Orders ==")>> \o lines
           \o <<Marker("== End of Orders ==")>>

\* the lines place_order will print for this order on this book
lines_to_print(b, order, order_type) ==
    clearing_house_block(
      clearing_house_log(OppositeTree(b, order_type), order, order_type,
                         find_matching_orders(b, order, order_type)).lines)

\* read_msg returned Ok(msg)
ReadMsg(c, msg) ==
    /\ pc[c] = "read"
    /\ nread < MaxRequests
    /\ pc' = [pc EXCEPT ![c] = "lock"]
    /\ cur' = [cur EXCEPT ![c] = [Idle EXCEPT !.req = msg]]
    /\ nread' = nread + 1
    /\ unanswered' = [unanswered EXCEPT ![c] = @ + 1]
    /\ UNCHANGED <<book, minted, ret, fills, panicked, lock, stdout, serial>>
    /\ UNCHANGED qvars

\* read_msg returned Err: the client is gone or the frame does not decode
ReadFailed(c) ==
    /\ pc[c] = "read"
    /\ pc' = [pc EXCEPT ![c] = "closed"]
    /\ UNCHANGED <<book, minted, ret, fills, panicked, lock, cur, nread, unanswered,
                   stdout, serial>>
    /\ UNCHANGED qvars

\* book.read().await is granted
AcquireRead(c) ==
    /\ pc[c] = "lock"
    /\ cur[c].req.kind = "ViewL2Book"
    /\ can_read(lock)
    /\ lock' = [lock EXCEPT !.readers = @ \cup {c}]
    /\ pc' = [pc EXCEPT ![c] = "call"]
    /\ cur' = [cur EXCEPT ![c].serial_l2 = view_book_l2(serial.book)]
    /\ UNCHANGED <<book, minted, ret, fills, panicked, nread, unanswered, stdout, serial>>
    /\ UNCHANGED qvars

\* book.write().await is granted
AcquireWrite(c) ==
    /\ pc[c] = "lock"
    /\ cur[c].req.kind \in {"PlaceOrder", "CancelOrder"}
    /\ can_write(lock)
    /\ lock' = [lock EXCEPT !.writers = @ \cup {c}]
    /\ pc' = [pc EXCEPT ![c] = "call"]
    /\ serial' = run_serial(serial, cur[c].req)
    /\ UNCHANGED <<book, minted, ret, fills, panicked, cur, nread, unanswered, stdout>>
    /\ UNCHANGED qvars

\* the ViewL2Book arm calls view_book_l2
CallViewL2Book(c) ==
    /\ pc[c] = "call"
    /\ cur[c].req.kind = "ViewL2Book"
    /\ cur' = [cur EXCEPT ![c].resp = Response("L2BookOk", 0, view_book_l2(book))]
    /\ pc' = [pc EXCEPT ![c] = "write"]
    /\ UNCHANGED <<book, minted, ret, fills, panicked, lock, nread, unanswered, stdout,
                   serial>>
    /\ UNCHANGED qvars

\* the task after a call of the book that returned r: on to the response, or
\* unwound by a panic inside the call
Called(c, r, resp) ==
    /\ book' = r.book
    /\ panicked' = (panicked \/ r.panic)
    /\ pc' = [pc EXCEPT ![c] = IF r.panic THEN "aborted" ELSE "write"]
    /\ cur' = [cur EXCEPT ![c] = IF r.panic THEN Idle
                                 ELSE [@ EXCEPT !.resp = resp]]
    /\ lock' = IF r.panic THEN drop_guard(lock, c) ELSE lock

\* the CancelOrder arm calls cancel_order
CallCancelOrder(c) ==
    /\ pc[c] = "call"
    /\ cur[c].req.kind = "CancelOrder"
    /\ Called(c, cancel_order(book, cur[c].req.order_id),
              CancelResponse(cancel_order(book, cur[c].req.order_id).ok))
    /\ UNCHANGED <<minted, ret, fills, nread, unanswered, stdout, serial>>
    /\ UNCHANGED qvars

\* the PlaceOrder arm calls place_order, which returns Err at once
CallPlaceOrderRejected(c) ==
    /\ pc[c] = "call"
    /\ cur[c].req.kind = "PlaceOrder"
    /\ cur[c].req.quantity = 0 \/ cur[c].req.price = 0
    /\ Called(c, place_order(book, cur[c].req.price, cur[c].req.quantity,
                             cur[c].req.order_type, minted + 1, minted + 1),
              PlaceResponse(FALSE, 0))
    /\ UNCHANGED <<minted, ret, fills, nread, unanswered, stdout, serial>>
    /\ UNCHANGED qvars

\* the PlaceOrder arm calls place_order, which constructs the Order and finds
\* its match; what it will print is now fixed
PlaceOrderBegin(c) ==
    /\ pc[c] = "call"
    /\ cur[c].req.kind = "PlaceOrder"
    /\ cur[c].req.quantity # 0 /\ cur[c].req.price # 0
    /\ minted' = minted + 1
    /\ cur' = [cur EXCEPT
                 ![c].uuid = minted + 1,
                 ![c].outcome =
                    find_matching_orders(book,
                                         Order_new(minted + 1, cur[c].req.price,
                                                   cur[c].req.quantity, minted + 1),
                                         cur[c].req.order_type),
                 ![c].lines =
                    lines_to_print(book,
                                   Order_new(minted + 1, cur[c].req.price,
                                             cur[c].req.quantity, minted + 1),
                                   cur[c].req.order_type)]
    /\ pc' = [pc EXCEPT ![c] = "log"]
    /\ UNCHANGED <<book, ret, fills, panicked, lock, nread, unanswered, stdout, serial>>
    /\ UNCHANGED qvars

\* one println! of place_order
PrintLine(c) ==
    /\ pc[c] = "log"
    /\ cur[c].lines # <<>>
    /\ stdout' = Append(stdout, [by |-> cur[c].uuid, line |-> Head(cur[c].lines)])
    /\ cur' = [cur EXCEPT ![c].lines = Tail(@)]
    /\ UNCHANGED <<book, minted, ret, fills, panicked, lock, pc, nread, unanswered, serial>>
    /\ UNCHANGED qvars

\* the task inside place_order after a step that left t, on to pc value next
\* or unwound by a failed unwrap
Taken(c, t, next) ==
    /\ book' = t.book
    /\ panicked' = (panicked \/ t.panic)
    /\ pc' = [pc EXCEPT ![c] = IF t.panic THEN "aborted" ELSE next]
    /\ cur' = [cur EXCEPT ![c] = IF t.panic THEN Idle
                                 ELSE IF next = "rest"
                                 THEN [@ EXCEPT !.left = cur[c].outcome.remaining_quantity]
                                 ELSE @]
    /\ lock' = IF t.panic THEN drop_guard(lock, c) ELSE lock

\* place_order, its lines printed, runs the loop that removes the fully
\* matched orders
PlaceOrderTake(c) ==
    /\ pc[c] = "log"
    /\ cur[c].lines = <<>>
    /\ Taken(c, remove_full_orders(book, cur[c].req.order_type,
                                   cur[c].outcome.full_order, 1),
             "update")
    /\ UNCHANGED <<minted, ret, fills, nread, unanswered, stdout, serial>>
    /\ UNCHANGED qvars

\* the partial update of place_order on book b
place_order_update(b, order_type, match_outcome) ==
    IF match_outcome.partial_order = None
    THEN [book |-> b, panic |-> FALSE]
    ELSE
      LET upd == update_order_quantity(
                   OppositeTree(b, order_type),
                   unwrap(match_outcome.partial_order).order_key,
                   unwrap(match_outcome.partial_order).remaining_quantity)
      IN [book |-> WithOpposite(b, order_type, upd.tree), panic |-> ~upd.ok]

\* place_order, the loop over, updates the partially matched order if there
\* is one
PlaceOrderUpdate(c) ==
    /\ pc[c] = "update"
    /\ Taken(c, place_order_update(book, cur[c].req.order_type, cur[c].outcome),
             "rest")
    /\ UNCHANGED <<minted, ret, fills, nread, unanswered, stdout, serial>>
    /\ UNCHANGED qvars

\* place_order rests what is left of the incoming order, or records it as
\* removed, and returns
PlaceOrderRest(c) ==
    /\ pc[c] = "rest"
    /\ LET order == [Order_new(cur[c].uuid, cur[c].req.price, cur[c].req.quantity,
                               cur[c].uuid) EXCEPT !.quantity = cur[c].left]
           r == place_order_rest(book, order, cur[c].req.order_type, <<>>,
                                 insert_order(OwnTree(book, cur[c].req.order_type),
                                              order))
       IN Called(c, r, PlaceResponse(r.ok, r.order_id))
    /\ UNCHANGED <<minted, ret, fills, nread, unanswered, stdout, serial>>
    /\ UNCHANGED qvars

\* write_msg returned Ok: the arm ends, its guard is dropped and the loop
\* goes back to read_msg
WriteMsg(c) ==
    /\ pc[c] = "write"
    /\ unanswered' = [unanswered EXCEPT ![c] = @ - 1]
    /\ lock' = drop_guard(lock, c)
    /\ pc' = [pc EXCEPT ![c] = "read"]
    /\ cur' = [cur EXCEPT ![c] = Idle]
    /\ UNCHANGED <<book, minted, ret, fills, panicked, nread, stdout, serial>>
    /\ UNCHANGED qvars

\* write_msg returned Err (the client is gone): unwrap() panics, the task
\* unwinds and its guard is dropped
WriteFailed(c) ==
    /\ pc[c] = "write"
    /\ lock' = drop_guard(lock, c)
    /\ pc' = [pc EXCEPT ![c] = "aborted"]
    /\ cur' = [cur EXCEPT ![c] = Idle]
    /\ UNCHANGED <<book, minted, ret, fills, panicked, nread, unanswered, stdout, serial>>
    /\ UNCHANGED qvars

ServerNext ==
    \/ \E c \in Conns, msg \in ClientRequests : ReadMsg(c, msg)
    \/ \E c \in Conns : ReadFailed(c)
    \/ \E c \in Conns : AcquireRead(c)
    \/ \E c \in Conns : AcquireWrite(c)
    \/ \E c \in Conns : CallViewL2Book(c)
    \/ \E c \in Conns : CallCancelOrder(c)
    \/ \E c \in Conns : CallPlaceOrderRejected(c)
    \/ \E c \in Conns : PlaceOrderBegin(c)
    \/ \E c \in Conns : PrintLine(c)
    \/ \E c \in Conns : PlaceOrderTake(c)
    \/ \E c \in Conns : PlaceOrderUpdate(c)
    \/ \E c \in Conns : PlaceOrderRest(c)
    \/ \E c \in Conns : WriteMsg(c)
    \/ \E c \in Conns : WriteFailed(c)

ServerSpec == Init /\ [][ServerNext]_vars

\* ---------------------------------------------------------------- the list on its own
\* A SlabLinkedList driven through push_front, push_back, pop_front, pop_back,
\* remove, get and get_mut.  The values pushed are 1, 2, ... so that every
\* element can be told from every other; handles is the queue the calls
\* describe, kept beside the list: a push adds the pair it returned, a pop
\* takes the pair at that end, remove(h) takes the pair with handle h.
Pushed == Cardinality(issued)

\* handles a caller can name: every slot a push can have used and one that no
\* push has handed out
NodeIds == 0..MaxPushes

Without(pairs, node_id) ==
    LET other(e) == e[1] # node_id IN SelectSeq(pairs, other)

PushFront ==
    /\ Pushed < MaxPushes
    /\ LET r == push_front(list, Pushed + 1) IN
       /\ list' = r.list
       /\ handles' = << <<r.node_id, Pushed + 1>> >> \o handles
       /\ issued' = issued \cup {<<r.node_id, Pushed + 1>>}
       /\ lret' = LRet("push_front", r.node_id, None, FALSE)
    /\ UNCHANGED <<bvars, svars, tvars>>

PushBack ==
    /\ Pushed < MaxPushes
    /\ LET r == push_back(list, Pushed + 1) IN
       /\ list' = r.list
       /\ handles' = Append(handles, <<r.node_id, Pushed + 1>>)
       /\ issued' = issued \cup {<<r.node_id, Pushed + 1>>}
       /\ lret' = LRet("push_back", r.node_id, None, FALSE)
    /\ UNCHANGED <<bvars, svars, tvars>>

PopFront ==
    /\ LET r == pop_front(list) IN
       /\ list' = r.list
       /\ lret' = LRet("pop_front", 0, r.value, r.panic)
    /\ handles' = IF handles = <<>> THEN <<>> ELSE Tail(handles)
    /\ UNCHANGED <<issued, bvars, svars, tvars>>

PopBack ==
    /\ LET r == pop_back(list) IN
       /\ list' = r.list
       /\ lret' = LRet("pop_back", 0, r.value, r.panic)
    /\ handles' = IF handles = <<>> THEN <<>> ELSE SubSeq(handles, 1, Len(handles) - 1)
    /\ UNCHANGED <<issued, bvars, svars, tvars>>

Remove(node_id) ==
    /\ LET r == remove(list, node_id) IN
       /\ list' = r.list
       /\ lret' = LRet("remove", node_id, r.value, r.panic)
    /\ handles' = Without(handles, node_id)
    /\ UNCHANGED <<issued, bvars, svars, tvars>>

Get(node_id) ==
    /\ lret' = LRet("get", node_id, get(list, node_id), FALSE)
    /\ UNCHANGED <<list, handles, issued, bvars, svars, tvars>>

GetMut(node_id) ==
    /\ lret' = LRet("get_mut", node_id, get_mut(list, node_id), FALSE)
    /\ UNCHANGED <<list, handles, issued, bvars, svars, tvars>>

QueueNext ==
    \/ PushFront
    \/ PushBack
    \/ PopFront
    \/ PopBack
    \/ \E node_id \in NodeIds : Remove(node_id)
    \/ \E node_id \in NodeIds : Get(node_id)
    \/ \E node_id \in NodeIds : GetMut(node_id)

QueueSpec == Init /\ [][QueueNext]_vars

\* ---------------------------------------------------------------- the tree on its own
\* A PriceTree driven through insert_order, remove_order and
\* update_order_quantity.  The orders inserted have the ids 1, 2, ...; keys
\* are any pair of slot numbers, live or not; update_order_quantity is called
\* as the book calls it, on a live order with a smaller quantity above 0 (the
\* smallest, 1, stands for all).
OrderKeys == {OrderKey_new(i, j) : i \in 0..MaxOrders, j \in 0..MaxOrders}

InsertOrder(price, quantity) ==
    /\ tminted < MaxOrders
    /\ LET r == insert_order(tree, Order_new(tminted + 1, price, quantity, tminted + 1)) IN
       /\ tree' = r.tree
       /\ tret' = TRet("insert_order", TRUE, FALSE)
    /\ tminted' = tminted + 1
    /\ UNCHANGED <<bvars, svars, lvars>>

RemoveOrder(key) ==
    /\ LET r == remove_order(tree, key) IN
       /\ tree' = r.tree
       /\ tret' = TRet("remove_order", r.ok, r.panic)
    /\ UNCHANGED <<tminted, bvars, svars, lvars>>

UpdateOrderQuantity(key, quantity) ==
    /\ is_some(get_order(tree, key))
    /\ quantity < unwrap(get_order(tree, key)).quantity
    /\ LET r == update_order_quantity(tree, key, quantity) IN
       /\ tree' = r.tree
       /\ tret' = TRet("update_order_quantity", r.ok, r.panic)
    /\ UNCHANGED <<tminted, bvars, svars, lvars>>

TreeNext ==
    \/ \E price \in Prices \ {0}, quantity \in Quantities \ {0} :
          InsertOrder(price, quantity)
    \/ \E key \in OrderKeys : RemoveOrder(key)
    \/ \E key \in OrderKeys : UpdateOrderQuantity(key, 1)

TreeSpec == Init /\ [][TreeNext]_vars

\* ---------------------------------------------------------------- quantities of the whole word
\* The book driven through accepted place_order calls alone, with quantities
\* from the two ends of what a u32 holds: the smallest and the largest.
WideQuantities == {1, U32_MODULUS - 1}

WideNext ==
    \E price \in Prices, quantity \in WideQuantities, order_type \in OrderTypes :
       Place(price, quantity, order_type)

WideSpec == Init /\ [][WideNext]_vars

\* ---------------------------------------------------------------- observations
RECURSIVE SumQty(_)
SumQty(orders) == IF orders = <<>> THEN 0 ELSE Head(orders).quantity + SumQty(Tail(orders))

RECURSIVE SumFill(_)
SumFill(lines) == IF lines = <<>> THEN 0 ELSE Head(lines).qty + SumFill(Tail(lines))

\* the orders queued at a price node, oldest first
LevelOrders(price_node) ==
    LET it == linked_list_iter(price_node.linked_list)
    IN [i \in 1..Len(it) |-> it[i][2]]

\* the orders resting on a tree: ascending price, oldest first within a price
TreeOrders(pt) ==
    LET nodes == price_tree_iter(pt)
    IN Flatten([i \in 1..Len(nodes) |-> LevelOrders(nodes[i][2])])

RestingIds(pt) ==
    LET orders == TreeOrders(pt) IN {orders[i].id : i \in 1..Len(orders)}

SeqToSet(q) == {q[i] : i \in 1..Len(q)}

\* the lines of the resting orders the latest place_order filled, in walk order
RestingFills(lines) == IF lines = <<>> THEN <<>> ELSE Tail(lines)

\* the step is an accepted place_order / a cancel_order
PlaceStep == ret'.op = "place_order" /\ ret'.ok /\ minted' = minted + 1
CancelStep == ret'.op = "cancel_order" /\ minted' = minted

\* ---------------------------------------------------------------- properties

\* C1: the fills of a place request are in best-price-first order: resting ask
\* prices non-decreasing for a Bid aggressor, resting bid prices non-increasing
\* for an Ask aggressor.
C1_BestPriceFirst ==
    ret.op = "place_order" =>
      LET rest == RestingFills(fills) IN
      \A i, j \in 1..Len(rest) :
        i < j => IF ret.order_type = "Bid"
                 THEN rest[i].price <= rest[j].price
                 ELSE rest[i].price >= rest[j].price

\* C2: the book is never crossed: with both ladders non-empty, the highest
\* resting bid is strictly below the lowest resting ask.
C2_NotCrossed ==
    \A b \in DOMAIN book.bid_tree.tree, a \in DOMAIN book.ask_tree.tree : b < a

\* C3: cancel_order of an id in the id index returns ok, takes the order off
\* its ladder, erases the id from the index and puts it in the removed set.
C3_CancelRestingOk ==
    [][(CancelStep /\ ret'.order_id \in DOMAIN book.order_id_map) =>
         /\ ret'.ok
         /\ ret'.order_id \notin DOMAIN book'.order_id_map
         /\ ret'.order_id \in book'.order_removed_set
         /\ ret'.order_id \notin RestingIds(book'.bid_tree) \cup RestingIds(book'.ask_tree)
      ]_vars

\* C4: every price node's total_quantity is the sum of the remaining quantities
\* of its queue and its order count is the queue's length.
NodeAggregatesOk(pt) ==
    \A k \in Slab_keys(pt.slab) :
      LET price_node == unwrap(Slab_get(pt.slab, k)) IN
      /\ price_node.total_quantity = SumQty(LevelOrders(price_node))
      /\ num_orders(price_node) = Len(LevelOrders(price_node))

C4_AggregateConsistency ==
    NodeAggregatesOk(book.bid_tree) /\ NodeAggregatesOk(book.ask_tree)

\* C5: the L2 snapshot lists bids in strictly decreasing price and asks in
\* strictly increasing price, one entry per price level of the ladder.
C5_L2BestFirst ==
    ret.op = "view_book_l2" =>
      /\ \A i, j \in 1..Len(ret.l2.bid) : i < j => ret.l2.bid[i].price > ret.l2.bid[j].price
      /\ \A i, j \in 1..Len(ret.l2.ask) : i < j => ret.l2.ask[i].price < ret.l2.ask[j].price
      /\ {ret.l2.bid[i].price : i \in 1..Len(ret.l2.bid)} = DOMAIN book.bid_tree.tree
      /\ {ret.l2.ask[i].price : i \in 1..Len(ret.l2.ask)} = DOMAIN book.ask_tree.tree
      /\ Len(ret.l2.bid) = Cardinality(DOMAIN book.bid_tree.tree)
      /\ Len(ret.l2.ask) = Cardinality(DOMAIN book.ask_tree.tree)

\* C6: time priority within a level.  In every accepted place_order the orders
\* filled at one price are filled in the order they were created, and any
\* order left resting at a price where something was filled is younger than
\* every other order filled at that price.
C6_TimePriority ==
    [][PlaceStep =>
         LET rest == RestingFills(fills')
             before == TreeOrders(OppositeTree(book, ret'.order_type))
             after == TreeOrders(OppositeTree(book', ret'.order_type))
             created(id) == (CHOOSE o \in SeqToSet(before) : o.id = id).created_at
         IN
         /\ \A i \in 1..Len(rest) : \E o \in SeqToSet(before) : o.id = rest[i].id
         /\ \A i, j \in 1..Len(rest) :
              (i < j /\ rest[i].price = rest[j].price)
                => created(rest[i].id) < created(rest[j].id)
         /\ \A i \in 1..Len(rest) : \A y \in SeqToSet(after) :
              (y.price = rest[i].price /\ y.id # rest[i].id)
                => created(rest[i].id) < y.created_at
      ]_vars

\* two orders at one price were filled by the latest place_order, the second
\* one only in part
C6_Witness ==
    /\ ret.op = "place_order" /\ ret.ok
    /\ Len(fills) >= 3
    /\ fills[2].price = fills[3].price
    /\ fills[3].id \in DOMAIN book.order_id_map

\* C7: conservation.  For every accepted place_order the fills plus the
\* quantity the aggressor rests with make up the incoming quantity, and the
\* quantity taken off the opposite ladder is the sum of the fills.
C7_Conservation ==
    [][PlaceStep =>
         LET rest == RestingFills(fills')
             own == TreeOrders(OwnTree(book', ret'.order_type))
             rests == {o \in SeqToSet(own) : o.id = ret'.order_id}
             resting_qty == IF rests = {} THEN 0 ELSE (CHOOSE o \in rests : TRUE).quantity
             before == SumQty(TreeOrders(OppositeTree(book, ret'.order_type)))
             after == SumQty(TreeOrders(OppositeTree(book', ret'.order_type)))
         IN
         /\ SumFill(rest) + resting_qty = ret'.quantity
         /\ before - after = SumFill(rest)
         /\ fills' # <<>> => fills'[1].qty = SumFill(rest)
      ]_vars

\* the latest place_order filled a resting order and rests with the remainder
C7_Witness ==
    /\ ret.op = "place_order" /\ ret.ok
    /\ Len(fills) >= 2
    /\ ret.order_id \in DOMAIN book.order_id_map
    /\ 0 < SumFill(RestingFills(fills))
    /\ SumFill(RestingFills(fills)) < ret.quantity

\* C8: index consistency.  The ids of the id map are exactly the ids resting on
\* the two trees, and every entry's key leads, on the tree of its side, to a
\* live queue node holding the order with that id.
KeyLeadsTo(pt, key, id) ==
    /\ Slab_contains(pt.slab, key.price_node_id)
    /\ LET price_node == unwrap(Slab_get(pt.slab, key.price_node_id))
           it == linked_list_iter(price_node.linked_list)
       IN /\ price_node.price \in DOMAIN pt.tree
          /\ pt.tree[price_node.price] = key.price_node_id
          /\ \E i \in 1..Len(it) :
               it[i][1] = key.linked_list_node_id /\ it[i][2].id = id
          /\ Slab_contains(price_node.linked_list.slab, key.linked_list_node_id)
          /\ unwrap(Slab_get(price_node.linked_list.slab,
                             key.linked_list_node_id)).value.id = id

C8_IndexConsistency ==
    /\ DOMAIN book.order_id_map = RestingIds(book.bid_tree) \cup RestingIds(book.ask_tree)
    /\ RestingIds(book.bid_tree) \cap RestingIds(book.ask_tree) = {}
    /\ Len(TreeOrders(book.bid_tree)) = Cardinality(RestingIds(book.bid_tree))
    /\ Len(TreeOrders(book.ask_tree)) = Cardinality(RestingIds(book.ask_tree))
    /\ \A id \in DOMAIN book.order_id_map :
         KeyLeadsTo(OwnTree(book, book.order_id_map[id].order_type),
                    book.order_id_map[id].order_key, id)

\* a queue slot has been recycled: at some price an older order sits in a
\* higher queue slot than a younger one behind it
SlotsRecycled(pt) ==
    \E k \in Slab_keys(pt.slab) :
      LET it == linked_list_iter(unwrap(Slab_get(pt.slab, k)).linked_list)
      IN \E i, j \in 1..Len(it) : i < j /\ it[i][1] > it[j][1]

C8_Witness ==
    /\ SlotsRecycled(book.bid_tree) \/ SlotsRecycled(book.ask_tree)
    /\ Cardinality(DOMAIN book.order_id_map) >= 2
    /\ book.order_removed_set # {}

\* C9: no order id is both in the id map and in the removed set.
C9_TombstoneDisjoint ==
    DOMAIN book.order_id_map \cap book.order_removed_set = {}

\* an order rests while a cancelled one and a matched one are in the removed set
C9_Witness ==
    /\ DOMAIN book.order_id_map # {}
    /\ Cardinality(book.order_removed_set) >= 2
    /\ ret.op = "cancel_order"
    /\ ret.order_id \in book.order_removed_set

\* C10: Gone is terminal.  An id in the removed set stays in it, never enters
\* the id map again and never rests again; an id in the id map stays there or
\* moves to the removed set.
C10_GoneIsTerminal ==
    [][LET index == DOMAIN book.order_id_map
           gone == book.order_removed_set
           index1 == DOMAIN book'.order_id_map
           gone1 == book'.order_removed_set
           resting1 == RestingIds(book'.bid_tree) \cup RestingIds(book'.ask_tree)
       IN
       /\ gone \subseteq gone1
       /\ gone \cap index1 = {}
       /\ gone \cap resting1 = {}
       /\ index \subseteq index1 \cup gone1
       /\ (index1 \cup gone1) \ (index \cup gone) # {}
            => (PlaceStep /\ (index1 \cup gone1) \ (index \cup gone) = {minted + 1})
      ]_vars

\* an id went Resting -> Gone by a match, another Unknown -> Gone on arrival,
\* and an order placed since then rests
C10_Witness ==
    /\ ret.op = "place_order" /\ ret.ok
    /\ \E g, h \in book.order_removed_set : g < h /\ h < ret.order_id
    /\ ret.order_id \in DOMAIN book.order_id_map

\* C11: no empty levels.  On either tree every price of the map leads to a live
\* price node of that price whose queue is non-empty, and every live price node
\* is the node of a price of the map: the node and its price go in the
\* operation that removes the last order at that price.
NoEmptyLevels(pt) ==
    /\ \A p \in DOMAIN pt.tree :
         /\ Slab_contains(pt.slab, pt.tree[p])
         /\ LET price_node == unwrap(Slab_get(pt.slab, pt.tree[p])) IN
            /\ price_node.price = p
            /\ price_node.linked_list.len > 0
            /\ LevelOrders(price_node) # <<>>
    /\ Slab_keys(pt.slab) = {pt.tree[p] : p \in DOMAIN pt.tree}
    /\ Cardinality(Slab_keys(pt.slab)) = Cardinality(DOMAIN pt.tree)

C11_NoEmptyLevels ==
    NoEmptyLevels(book.bid_tree) /\ NoEmptyLevels(book.ask_tree)

\* a price node of this tree has been destroyed while another level remains
LevelDestroyed(pt) ==
    /\ DOMAIN pt.tree # {}
    /\ \E k \in 0..(Len(pt.slab.entries) - 1) : ~Slab_contains(pt.slab, k)

C11_Witness ==
    /\ LevelDestroyed(book.bid_tree) \/ LevelDestroyed(book.ask_tree)
    /\ book.order_removed_set # {}

\* C12: place_order with price 0 or quantity 0 returns an error, prints no
\* fill and leaves both trees, the id map and the removed set as they were.
C12_RejectedPlace ==
    /\ \A price \in Prices, quantity \in Quantities, order_type \in OrderTypes :
         (price = 0 \/ quantity = 0) =>
           LET r == place_order(book, price, quantity, order_type,
                                minted + 1, minted + 1)
           IN /\ ~r.ok
              /\ r.err = "Price or quantity should be bigger than 0"
              /\ r.lines = <<>>
              /\ r.book = book
              /\ ~r.panic
    /\ (ret.op = "place_order" /\ ~ret.ok) => fills = <<>>

\* a place_order has just been rejected on a book that holds a resting order
\* and a removed one
C12_Witness ==
    /\ ret.op = "place_order" /\ ~ret.ok
    /\ ret.err = "Price or quantity should be bigger than 0"
    /\ DOMAIN book.order_id_map # {}
    /\ book.order_removed_set # {}

\* C13: cancel_order of an id in the removed set fails as already removed,
\* cancel_order of an id in neither the removed set nor the id map fails as not
\* found, and either way the book is left as it was.
C13_CancelFails ==
    \A order_id \in 0..MaxOrders :
      LET r == cancel_order(book, order_id) IN
      /\ order_id \in book.order_removed_set =>
           /\ ~r.ok
           /\ r.err = "Order is already removed from the book"
           /\ r.book = book
           /\ ~r.panic
      /\ order_id \notin book.order_removed_set \cup DOMAIN book.order_id_map =>
           /\ ~r.ok
           /\ r.err = "Order annot be found"
           /\ r.book = book
           /\ ~r.panic

\* the latest cancel_order named an id that was already in the removed set,
\* on a book where two ids are removed and an order rests
C13_Witness ==
    /\ ret.op = "cancel_order" /\ ~ret.ok
    /\ ret.err = "Order is already removed from the book"
    /\ ret.order_id \in book.order_removed_set
    /\ Cardinality(book.order_removed_set) >= 2
    /\ DOMAIN book.order_id_map # {}

\* C14: the limit price is respected with non-strict crossing.  Every fill of a
\* Bid aggressor is against an ask priced at or below the bid, every fill of an
\* Ask aggressor is against a bid priced at or above the ask, and an aggressor
\* that finds an order resting at exactly its own price on the opposite tree
\* is matched.
C14_LimitRespected ==
    [][PlaceStep =>
         LET rest == RestingFills(fills')
             before == TreeOrders(OppositeTree(book, ret'.order_type))
         IN
         /\ \A i \in 1..Len(rest) :
              IF ret'.order_type = "Bid"
              THEN rest[i].price <= ret'.price
              ELSE rest[i].price >= ret'.price
         /\ (\E o \in SeqToSet(before) : o.price = ret'.price) => rest # <<>>
      ]_vars

\* C15: every accepted place_order returns an id that was nowhere in the book
\* before, and after the call the id is in exactly one place: resting on the
\* tree of its own side with the quantity the fills left, and in the id map;
\* or, with nothing left, on no tree and in the removed set.
C15_RestsOrGone ==
    [][PlaceStep =>
         LET id == ret'.order_id
             left == ret'.quantity - SumFill(RestingFills(fills'))
             own == TreeOrders(OwnTree(book', ret'.order_type))
             opposite == TreeOrders(OppositeTree(book', ret'.order_type))
             rests == {i \in 1..Len(own) : own[i].id = id}
         IN
         /\ id \notin DOMAIN book.order_id_map \cup book.order_removed_set
         /\ id \notin RestingIds(book.bid_tree) \cup RestingIds(book.ask_tree)
         /\ \A o \in SeqToSet(opposite) : o.id # id
         /\ IF left > 0
            THEN /\ Cardinality(rests) = 1
                 /\ \A i \in rests : /\ own[i].quantity = left
                                     /\ own[i].price = ret'.price
                 /\ id \in DOMAIN book'.order_id_map
                 /\ book'.order_id_map[id].order_type = ret'.order_type
                 /\ id \notin book'.order_removed_set
            ELSE /\ left = 0
                 /\ rests = {}
                 /\ id \notin DOMAIN book'.order_id_map
                 /\ id \in book'.order_removed_set
      ]_vars

\* the latest place_order was filled entirely on arrival and is in the removed
\* set, next to an order that rests
C15_Witness ==
    /\ ret.op = "place_order" /\ ret.ok
    /\ ret.order_id \in book.order_removed_set
    /\ SumFill(RestingFills(fills)) = ret.quantity
    /\ \E id \in DOMAIN book.order_id_map : id < ret.order_id

\* C19: every fill of an accepted place_order names an order that rested on
\* the opposite tree, trades at that order's price, and its quantity is what
\* the call took from that order: the whole quantity of an order that left the
\* tree, the reduction of one that stays.
C19_FillAtRestingPrice ==
    [][PlaceStep =>
         LET rest == RestingFills(fills')
             before == TreeOrders(OppositeTree(book, ret'.order_type))
             after == TreeOrders(OppositeTree(book', ret'.order_type))
             left(id) == IF \E y \in SeqToSet(after) : y.id = id
                         THEN (CHOOSE y \in SeqToSet(after) : y.id = id).quantity
                         ELSE 0
         IN
         /\ \A i \in 1..Len(rest) :
              \E o \in SeqToSet(before) :
                /\ o.id = rest[i].id
                /\ rest[i].price = o.price
                /\ rest[i].qty = o.quantity - left(o.id)
                /\ rest[i].qty > 0
                /\ rest[i].order_type = resting_order_type(ret'.order_type)
         /\ \A i, j \in 1..Len(rest) : i # j => rest[i].id # rest[j].id
         /\ \A o \in SeqToSet(before) :
              o.quantity # left(o.id) => \E i \in 1..Len(rest) : rest[i].id = o.id
      ]_vars

\* the latest place_order was filled at a resting price that is not its own
\* limit price, by part of a resting order that stays on the book
C19_Witness ==
    /\ ret.op = "place_order" /\ ret.ok
    /\ Len(fills) >= 2
    /\ fills[2].price # ret.price
    /\ fills[2].id \in DOMAIN book.order_id_map
    /\ fills[2].qty = ret.quantity

\* the orders resting on either tree of a book
AllOrders(b) == TreeOrders(b.bid_tree) \o TreeOrders(b.ask_tree)

\* the ids queued at a price of a tree, oldest first (none when the price has
\* no level)
LevelIdsAt(pt, price) ==
    IF price \in DOMAIN pt.tree
    THEN LET orders == LevelOrders(unwrap(Slab_get(pt.slab, pt.tree[price])))
         IN [i \in 1..Len(orders) |-> orders[i].id]
    ELSE <<>>

\* the total_quantity of the level at a price of a tree (0 when the price has
\* no level)
LevelTotalAt(pt, price) ==
    IF price \in DOMAIN pt.tree
    THEN unwrap(Slab_get(pt.slab, pt.tree[price])).total_quantity
    ELSE 0

\* a sequence of ids without those of a set
IdsNotIn(ids, gone) ==
    LET stays(id) == id \notin gone IN SelectSeq(ids, stays)

\* the order with this id among the orders of a sequence
OrderOf(orders, id) == CHOOSE o \in SeqToSet(orders) : o.id = id

\* what was left of the aggressor when the walk came to its k-th fill
RemainingAt(quantity, rest, k) == quantity - SumFill(SubSeq(rest, 1, k - 1))

\* C24: in the matching of an accepted place_order, a resting order no larger
\* than what remains of the aggressor is matched in full: it leaves the
\* opposite tree and the id map and its id enters the removed set; a larger
\* one is matched in part: its quantity becomes its quantity less what
\* remained (> 0), it keeps its entry in the id map and its place in its
\* level's queue, and the matching ends there with nothing left of the
\* aggressor.
C24_FullOrPartialMatch ==
    [][PlaceStep =>
         LET rest == RestingFills(fills')
             opposite == OppositeTree(book, ret'.order_type)
             opposite1 == OppositeTree(book', ret'.order_type)
             before == TreeOrders(opposite)
             after == TreeOrders(opposite1)
             gone == book'.order_removed_set \ book.order_removed_set
         IN
         /\ \A k \in 1..Len(rest) :
              LET o == OrderOf(before, rest[k].id)
                  remaining == RemainingAt(ret'.quantity, rest, k)
              IN
              /\ \E x \in SeqToSet(before) : x.id = rest[k].id
              /\ remaining > 0
              /\ IF o.quantity <= remaining
                 THEN /\ rest[k].qty = o.quantity
                      /\ o.id \notin RestingIds(opposite1)
                      /\ o.id \notin DOMAIN book'.order_id_map
                      /\ o.id \in book'.order_removed_set
                 ELSE /\ rest[k].qty = remaining
                      /\ \E y \in SeqToSet(after) :
                           /\ y.id = o.id
                           /\ y.quantity = o.quantity - remaining
                           /\ y.quantity > 0
                           /\ y.price = o.price
                           /\ y.created_at = o.created_at
                      /\ o.id \in DOMAIN book'.order_id_map
                      /\ book'.order_id_map[o.id] = book.order_id_map[o.id]
                      /\ o.id \notin book'.order_removed_set
                      /\ k = Len(rest)
                      /\ SumFill(rest) = ret'.quantity
         /\ \A price \in DOMAIN opposite.tree :
              LevelIdsAt(opposite1, price) = IdsNotIn(LevelIdsAt(opposite, price), gone)
      ]_vars

\* the latest place_order matched one resting order in full and the next one
\* at the same price in part
C24_Witness ==
    /\ ret.op = "place_order" /\ ret.ok
    /\ Len(fills) = 3
    /\ fills[2].id \in book.order_removed_set
    /\ fills[3].id \in DOMAIN book.order_id_map
    /\ fills[3].qty < fills[1].qty
    /\ ret.order_id \in book.order_removed_set

\* every order of after that is in before has the price and creation time it
\* has there and at most the quantity
OrdersKept(before, after) ==
    \A o \in before : \A o1 \in after :
      o1.id = o.id =>
        /\ o1.price = o.price
        /\ o1.created_at = o.created_at
        /\ o1.quantity <= o.quantity

\* no order of before is in after
OrdersApart(before, after) ==
    \A o \in before : \A o1 \in after : o1.id # o.id

OrdersPositive(orders) ==
    \A o \in orders : o.quantity > 0 /\ o.price > 0

\* the orders in the queues of the levels of a tree, as a set
OrdersOn(pt) ==
    UNION {SeqToSet(LevelOrders(unwrap(Slab_get(pt.slab, pt.tree[p])))) :
             p \in DOMAIN pt.tree}

\* a step that changed a tree: before and after are the orders on it, across
\* those that were on the other tree
TreeStepKeeps(before, across, after) ==
    /\ OrdersKept(before, after)
    /\ OrdersApart(across, after)
    /\ OrdersPositive(after)

\* the partial match of the outcome is one update_order_quantity accepts on
\* this tree and leads to the orders of after: the order is there, has more
\* than the new quantity, which is above 0, and has the new quantity in after
PartialUpdateShrinks(opposite, partial, after) ==
    partial # None =>
      /\ is_some(get_order(opposite, unwrap(partial).order_key))
      /\ 0 < unwrap(partial).remaining_quantity
      /\ unwrap(partial).remaining_quantity
           < unwrap(get_order(opposite, unwrap(partial).order_key)).quantity
      /\ \E o1 \in after :
           /\ o1.id = unwrap(get_order(opposite, unwrap(partial).order_key)).id
           /\ o1.quantity = unwrap(partial).remaining_quantity

\* C26: a resting order's price never changes and its quantity never grows:
\* across every step an order that rests before and after is on the same
\* side, keeps its price and its creation time and has at most the quantity
\* it had; every resting order has a quantity above 0; and the one
\* update_order_quantity call of an accepted place_order is made with a
\* quantity above 0 and below the one the order has.
C26_PriceFixedQuantityShrinks ==
    [][/\ book'.bid_tree # book.bid_tree =>
            TreeStepKeeps(OrdersOn(book.bid_tree), OrdersOn(book.ask_tree),
                          OrdersOn(book'.bid_tree))
       /\ book'.ask_tree # book.ask_tree =>
            TreeStepKeeps(OrdersOn(book.ask_tree), OrdersOn(book.bid_tree),
                          OrdersOn(book'.ask_tree))
       /\ (PlaceStep /\ fills' # <<>>) =>
            PartialUpdateShrinks(
              OppositeTree(book, ret'.order_type),
              find_matching_orders(
                book,
                Order_new(ret'.order_id, ret'.price, ret'.quantity, ret'.order_id),
                ret'.order_type).partial_order,
              OrdersOn(OppositeTree(book', ret'.order_type)))
      ]_vars

\* an order that was placed with the largest quantity rests with less after
\* the latest place_order filled it in part, at a price that is not the
\* aggressor's
C26_Witness ==
    /\ ret.op = "place_order" /\ ret.ok
    /\ Len(fills) = 2
    /\ \E o \in SeqToSet(AllOrders(book)) :
         /\ o.id = fills[2].id
         /\ o.quantity + fills[2].qty = MaxQty
         /\ o.quantity > 0
         /\ o.price # ret.price

\* a resting price the aggressor's limit accepts: at or below a bid's limit,
\* at or above an ask's
Acceptable(resting_price, limit, order_type) ==
    IF order_type = "Bid" THEN resting_price <= limit ELSE resting_price >= limit

\* C27: an accepted place_order that finds the opposite tree empty, or with no
\* level at a price its limit accepts, prints no fill, leaves the opposite
\* tree and the removed set as they were and rests its whole quantity on its
\* own side, at the tail of its price's queue.
C27_NoLiquidityRests ==
    [][(PlaceStep /\ \A p \in DOMAIN OppositeTree(book, ret'.order_type).tree :
                       ~Acceptable(p, ret'.price, ret'.order_type)) =>
         LET own == OwnTree(book, ret'.order_type)
             own1 == OwnTree(book', ret'.order_type)
             orders1 == TreeOrders(own1)
         IN
         /\ fills' = <<>>
         /\ OppositeTree(book', ret'.order_type) = OppositeTree(book, ret'.order_type)
         /\ book'.order_removed_set = book.order_removed_set
         /\ LevelIdsAt(own1, ret'.price)
              = Append(LevelIdsAt(own, ret'.price), ret'.order_id)
         /\ \A p \in DOMAIN own.tree :
              p # ret'.price => LevelIdsAt(own1, p) = LevelIdsAt(own, p)
         /\ DOMAIN own1.tree = DOMAIN own.tree \cup {ret'.price}
         /\ \E j \in 1..Len(orders1) :
              /\ orders1[j].id = ret'.order_id
              /\ orders1[j].quantity = ret'.quantity
              /\ orders1[j].price = ret'.price
         /\ LevelTotalAt(own1, ret'.price)
              = LevelTotalAt(own, ret'.price) + ret'.quantity
         /\ DOMAIN book'.order_id_map = DOMAIN book.order_id_map \cup {ret'.order_id}
         /\ book'.order_id_map[ret'.order_id].order_type = ret'.order_type
      ]_vars

\* the latest place_order found resting orders opposite, none at a price its
\* limit accepts, and rests whole behind an older order at its price
C27_Witness ==
    /\ ret.op = "place_order" /\ ret.ok
    /\ fills = <<>>
    /\ DOMAIN OppositeTree(book, ret.order_type).tree # {}
    /\ \A p \in DOMAIN OppositeTree(book, ret.order_type).tree :
         ~Acceptable(p, ret.price, ret.order_type)
    /\ Len(LevelIdsAt(OwnTree(book, ret.order_type), ret.price)) = 2
    /\ LevelIdsAt(OwnTree(book, ret.order_type), ret.price)[2] = ret.order_id

\* what a tree holds: for each of its prices the level's total and its queue
TreeView(pt) ==
    [p \in DOMAIN pt.tree |->
       [total_quantity |-> LevelTotalAt(pt, p),
        orders |-> LevelOrders(unwrap(Slab_get(pt.slab, pt.tree[p])))]]

\* insert_order of this order on a tree and remove_order of the key it
\* returned: ins and rm are what the two calls returned, before, inserted and
\* removed what the tree holds before them, between them and after them
InsertThenRemove(order, ins, rm, before, inserted, removed) ==
    /\ IF order.price \in DOMAIN before
       THEN /\ inserted[order.price].orders = Append(before[order.price].orders, order)
            /\ inserted[order.price].total_quantity
                 = before[order.price].total_quantity + order.quantity
       ELSE /\ inserted[order.price].orders = <<order>>
            /\ inserted[order.price].total_quantity = order.quantity
    /\ DOMAIN inserted = DOMAIN before \cup {order.price}
    /\ \A p \in DOMAIN before : p # order.price => inserted[p] = before[p]
    /\ get_order(ins.tree, ins.key) = Some(order)
    /\ rm.ok
    /\ ~rm.panic
    /\ removed = before

\* the same with the two calls made on tree pt
InsertedAndRemoved(pt, order, ins) ==
    InsertThenRemove(order, ins, remove_order(ins.tree, ins.key),
                     TreeView(pt), TreeView(ins.tree),
                     TreeView(remove_order(ins.tree, ins.key).tree))

\* the keys of a tree that lead to no order: the price node's slot is not
\* live, or the queue slot in it is not
DeadKeys(pt) ==
    {key \in OrderKeys :
       \/ ~Slab_contains(pt.slab, key.price_node_id)
       \/ ~Slab_contains(unwrap(Slab_get(pt.slab, key.price_node_id)).linked_list.slab,
                          key.linked_list_node_id)}

\* C28: on a price tree, insert_order at a price that has a level appends the
\* order to the tail of its queue and adds its quantity to the level total,
\* at a new price it creates a level holding that order alone; the other
\* levels stay as they are; remove_order of the key returned succeeds and
\* restores the prices, every level's total and every queue; and remove_order
\* of a key whose price node or queue slot is not live fails and changes
\* nothing.
C28_InsertRemoveInverse ==
    /\ \A price \in Prices \ {0}, quantity \in Quantities \ {0} :
         InsertedAndRemoved(tree,
                            Order_new(tminted + 1, price, quantity, tminted + 1),
                            insert_order(tree,
                                         Order_new(tminted + 1, price, quantity,
                                                   tminted + 1)))
    /\ \A key \in DeadKeys(tree) : remove_order(tree, key) = TreeRet(tree, FALSE, FALSE)
    /\ (tret.op = "remove_order" /\ ~tret.ok) => ~tret.panic

\* the latest call was a remove_order that failed, on a tree that holds two
\* orders at one price, one of them reduced, after a level was destroyed
C28_Witness ==
    /\ tret.op = "remove_order" /\ ~tret.ok
    /\ LevelDestroyed(tree)
    /\ \E p \in DOMAIN tree.tree :
         /\ Len(TreeView(tree)[p].orders) = 2
         /\ TreeView(tree)[p].total_quantity > SumQty(TreeView(tree)[p].orders)

\* C29: no internal lookup fails.  In every run of place_order and
\* cancel_order calls, each get_order, remove_order and update_order_quantity
\* made inside them succeeds: no unwrap has panicked, so no call has stopped
\* half-way through its changes to the book.
C29_NoLookupFails ==
    /\ ~panicked
    /\ ret.op \in {"place_order", "cancel_order"} =>
         \/ ret.ok
         \/ ret.err \in {"Price or quantity should be bigger than 0",
                         "Order is already removed from the book",
                         "Order annot be found"}

\* the latest place_order looked up, on a tree where a level has been
\* destroyed, a resting order that it filled in part and updated
C29_Witness ==
    /\ ~panicked
    /\ ret.op = "place_order" /\ ret.ok
    /\ Len(fills) >= 2
    /\ fills[Len(fills)].id \in DOMAIN book.order_id_map
    /\ LevelDestroyed(OppositeTree(book, ret.order_type))

\* a sequence of orders without the one with this id
OrdersWithout(orders, id) ==
    LET other(o) == o.id # id IN SelectSeq(orders, other)

\* what cancel_order of the resting order o, found under key, does to its
\* own tree: pt and pt1 are the tree before and after the call
CancelledOnly(o, key, pt, pt1) ==
    /\ pt.tree[o.price] = key.price_node_id
    /\ \A p \in DOMAIN pt.tree :
         p # o.price =>
           /\ p \in DOMAIN pt1.tree
           /\ pt1.tree[p] = pt.tree[p]
           /\ Slab_get(pt1.slab, pt1.tree[p]) = Slab_get(pt.slab, pt.tree[p])
    /\ IF Len(LevelIdsAt(pt, o.price)) = 1
       THEN DOMAIN pt1.tree = DOMAIN pt.tree \ {o.price}
       ELSE /\ DOMAIN pt1.tree = DOMAIN pt.tree
            /\ LevelOrders(unwrap(Slab_get(pt1.slab, pt1.tree[o.price])))
                 = OrdersWithout(LevelOrders(unwrap(Slab_get(pt.slab, pt.tree[o.price]))),
                                 o.id)
            /\ LevelTotalAt(pt1, o.price) = LevelTotalAt(pt, o.price) - o.quantity

\* C30: a cancel_order that takes a resting order off the book changes that
\* order alone: no fill is printed, the opposite tree is as it was, every
\* other order keeps its side, price, quantity and place in its queue, every
\* other level is as it was, and the level of the cancelled order loses
\* exactly that order's quantity from its total, or goes if the order was its
\* last; the id map loses that id alone and the removed set gains it alone.
C30_CancelFrame ==
    [][(CancelStep /\ ret'.order_id \in DOMAIN book.order_id_map) =>
         LET id == ret'.order_id
             order_type == book.order_id_map[id].order_type
             key == book.order_id_map[id].order_key
         IN
         /\ fills' = <<>>
         /\ ~panicked'
         /\ OppositeTree(book', order_type) = OppositeTree(book, order_type)
         /\ is_some(get_order(OwnTree(book, order_type), key))
         /\ unwrap(get_order(OwnTree(book, order_type), key)).id = id
         /\ CancelledOnly(unwrap(get_order(OwnTree(book, order_type), key)), key,
                          OwnTree(book, order_type), OwnTree(book', order_type))
         /\ DOMAIN book'.order_id_map = DOMAIN book.order_id_map \ {id}
         /\ \A other \in DOMAIN book'.order_id_map :
              book'.order_id_map[other] = book.order_id_map[other]
         /\ book'.order_removed_set = book.order_removed_set \cup {id}
      ]_vars

\* the latest cancel_order took the middle one of three orders queued at one
\* price off the book
C30_Witness ==
    /\ ret.op = "cancel_order"
    /\ ret.order_id \in book.order_removed_set
    /\ \E order_type \in OrderTypes, p \in Prices :
         LET ids == LevelIdsAt(OwnTree(book, order_type), p) IN
         /\ Len(ids) = 2
         /\ ids[1] < ret.order_id /\ ret.order_id < ids[2]

\* ---------------------------------------------------------------- observations of the server
\* the tasks that have a guard of the lock in scope
Holders == {c \in Conns : pc[c] \in {"call", "log", "update", "rest", "write"}}

\* the holders whose request changes the book
Mutators == {c \in Holders : cur[c].req.kind # "ViewL2Book"}

\* the lines printed so far by the place_order that constructed order uuid
PrintedBy(uuid) ==
    LET by_uuid(e) == e.by = uuid
        es == SelectSeq(stdout, by_uuid)
    IN [i \in 1..Len(es) |-> es[i].line]

\* the lines of a block that report a fill of a resting order: not the
\* markers, not the aggressor's own line
FillLines(lines, uuid) ==
    LET is_fill(l) == l.order_type \in OrderTypes /\ l.id # uuid
    IN SelectSeq(lines, is_fill)

\* the ids of the orders resting opposite order_type, in the order the walk of
\* find_matching_orders visits them
WalkIds(b, order_type) ==
    LET nodes == tree_iter(b, order_type)
        orders == Flatten([i \in 1..Len(nodes) |-> LevelOrders(nodes[i][2])])
    IN [i \in 1..Len(orders) |-> orders[i].id]

\* the response kinds the arm of a request kind writes
ResponseKinds(kind) ==
    IF kind = "PlaceOrder" THEN {"PlaceOk", "PlacErr"}
    ELSE IF kind = "CancelOrder" THEN {"CancelOk", "CancelErr"}
    ELSE IF kind = "ViewL2Book" THEN {"L2BookOk"}
    ELSE {}

\* ---------------------------------------------------------------- observations of the list
\* the handles of the elements now in the queue
LiveIds == {handles[i][1] : i \in 1..Len(handles)}

\* the step is a call of remove
RemoveStep == lret'.op = "remove"

\* ---------------------------------------------------------------- properties of the list

\* C21: remove with a handle that names no element of the queue (its element
\* was removed, or no push returned it) returns None and leaves the list as it
\* was: contents, order and length; remove with a live handle returns that
\* handle's value, and a second remove with the same handle returns None and
\* changes nothing.
C21_RemoveNotLive ==
    [][RemoveStep =>
         IF lret'.node_id \in LiveIds
         THEN /\ \E i \in 1..Len(handles) :
                   /\ handles[i][1] = lret'.node_id
                   /\ lret'.value = Some(handles[i][2])
              /\ list'.len = list.len - 1
              /\ remove(list', lret'.node_id) = ListRet(list', None, FALSE)
         ELSE /\ lret'.value = None
              /\ ~lret'.panic
              /\ list' = list
              /\ linked_list_iter(list') = linked_list_iter(list)
              /\ list'.len = list.len
      ]_vars

\* the latest remove named a handle whose element had been removed before,
\* on a queue that holds two elements, and returned None
C21_Witness ==
    /\ lret.op = "remove" /\ lret.value = None
    /\ \E e \in issued : e[1] = lret.node_id
    /\ lret.node_id \notin LiveIds
    /\ Len(handles) >= 2

\* the pairs whose element has left the queue: the handles their holders
\* must no longer use
StalePairs == {e \in issued : \A i \in 1..Len(handles) : handles[i] # e}

\* C22: a stale handle is harmless, also after its slot has been reused by a
\* later push: get, get_mut and remove with the handle of an element that has
\* left the queue return None, and remove leaves the list as it was, so the
\* element that now occupies the slot is neither returned nor removed.
C22_StaleHandleHarmless ==
    \A e \in StalePairs :
      /\ get(list, e[1]) = None
      /\ get_mut(list, e[1]) = None
      /\ remove(list, e[1]) = ListRet(list, None, FALSE)

\* C23: after any sequence of push_front, push_back, pop_front, pop_back and
\* remove, iter() run to exhaustion yields the pairs of the elements in the
\* queue, each once, front to back, each with the handle its push returned;
\* run from the back it yields the same pairs in the opposite order.
C23_IterBothWays ==
    /\ linked_list_iter(list) = handles
    /\ linked_list_iter_rev(list) = Reverse(handles)
    /\ \A i, j \in 1..Len(handles) : i # j => handles[i][1] # handles[j][1]
    /\ \A i \in 1..Len(handles) : handles[i] \in issued
    /\ Len(linked_list_iter(list)) = list.len

\* three elements are queued, the latest pushed at the front into a slot that
\* an element now gone had used, so that slots and positions disagree
C23_Witness ==
    /\ Len(handles) >= 3
    /\ lret.op = "push_front"
    /\ \E e \in StalePairs : e[1] = handles[1][1]
    /\ \E i, j \in 1..Len(handles) : i < j /\ handles[i][1] > handles[j][1]
    /\ \E i, j \in 1..Len(handles) : i < j /\ handles[i][1] < handles[j][1]

\* the slots met from this one along the next links, at most fuel of them
RECURSIVE FollowNext(_, _, _)
FollowNext(slab, id, fuel) ==
    IF id = None \/ fuel = 0 THEN <<>>
    ELSE IF ~Slab_contains(slab, unwrap(id)) THEN <<>>
    ELSE <<unwrap(id)>>
           \o FollowNext(slab, unwrap(Slab_get(slab, unwrap(id))).next_id, fuel - 1)

\* the slots met from this one along the prev links, at most fuel of them
RECURSIVE FollowPrev(_, _, _)
FollowPrev(slab, id, fuel) ==
    IF id = None \/ fuel = 0 THEN <<>>
    ELSE IF ~Slab_contains(slab, unwrap(id)) THEN <<>>
    ELSE <<unwrap(id)>>
           \o FollowPrev(slab, unwrap(Slab_get(slab, unwrap(id))).prev_id, fuel - 1)

\* next and prev are inverse of each other on the occupied slots
LinksInverse(slab) ==
    \A k \in Slab_keys(slab) :
      LET node == unwrap(Slab_get(slab, k)) IN
      /\ node.next_id # None =>
           /\ unwrap(node.next_id) \in Slab_keys(slab)
           /\ unwrap(Slab_get(slab, unwrap(node.next_id))).prev_id = Some(k)
      /\ node.prev_id # None =>
           /\ unwrap(node.prev_id) \in Slab_keys(slab)
           /\ unwrap(Slab_get(slab, unwrap(node.prev_id))).next_id = Some(k)

\* the walk met every occupied slot of the list, each once
MeetsAll(ll, walk) ==
    /\ Len(walk) = ll.len
    /\ SeqToSet(walk) = Slab_keys(ll.slab)
    /\ Cardinality(Slab_keys(ll.slab)) = ll.len

\* C32: the structure of the queue after any sequence of push_front,
\* push_back, pop_front, pop_back and remove with any handle: len is the
\* number of occupied slots, all of them met once from the front along next
\* and once from the back along prev; front and back are None exactly when
\* len is 0; the front node has no prev and the back node no next; next and
\* prev are inverse of each other; no call has panicked; and pop_front and
\* pop_back on an empty queue return None and leave it as it is.
C32_QueueStructure ==
    /\ MeetsAll(list, FollowNext(list.slab, list.front_id, Len(list.slab.entries) + 1))
    /\ MeetsAll(list, FollowPrev(list.slab, list.back_id, Len(list.slab.entries) + 1))
    /\ (list.front_id = None) <=> (list.len = 0)
    /\ (list.back_id = None) <=> (list.len = 0)
    /\ list.len > 0 =>
         /\ unwrap(Slab_get(list.slab, unwrap(list.front_id))).prev_id = None
         /\ unwrap(Slab_get(list.slab, unwrap(list.back_id))).next_id = None
    /\ LinksInverse(list.slab)
    /\ ~lret.panic
    /\ list.len = 0 =>
         /\ pop_front(list) = ListRet(list, None, FALSE)
         /\ pop_back(list) = ListRet(list, None, FALSE)
    /\ (lret.op \in {"pop_front", "pop_back"} /\ lret.value = None) => list.len = 0

\* the latest remove returned an element out of a slot that an element gone
\* before had used, so that the handle named may have been the stale one; two
\* elements are left, one pushed before the removed one and one after it
C32_Witness ==
    /\ lret.op = "remove" /\ lret.value # None
    /\ ~Slab_contains(list.slab, lret.node_id)
    /\ \E e \in StalePairs : e[1] = lret.node_id /\ e[2] # unwrap(lret.value)
    /\ Len(handles) = 2
    /\ handles[1][2] < unwrap(lret.value)
    /\ unwrap(lret.value) < handles[2][2]

\* the ids resting before and after the step whose order changed in price or
\* quantity
Changed ==
    {o.id : o \in {x \in SeqToSet(AllOrders(book)) :
                     /\ x.id \in RestingIds(book'.bid_tree) \cup RestingIds(book'.ask_tree)
                     /\ x \notin SeqToSet(AllOrders(book'))}}

\* the steps of connection c inside place_order: the loop of removals, the
\* partial update, the end
TakeStep(c) == pc[c] = "log" /\ pc'[c] = "update"
UpdateStep(c) == pc[c] = "update" /\ pc'[c] = "rest"
RestStep(c) == pc[c] = "rest" /\ pc'[c] = "write"

\* ---------------------------------------------------------------- properties of the server

\* C16: with several connections, place_order and cancel_order hold the book
\* exclusively and view_book_l2 shares it: no two mutations overlap, no
\* snapshot overlaps a mutation, every snapshot is the L2 view of the book left
\* by the requests that acquired the lock before it, run one by one, and
\* whenever no mutation is under way the book is the one those requests leave
\* when run one by one in lock-acquisition order.
C16_Serialised ==
    /\ Cardinality(Mutators) <= 1
    /\ Mutators # {} => Holders = Mutators
    /\ lock.writers = Mutators
    /\ lock.readers = Holders \ Mutators
    /\ \A c \in Conns :
         (pc[c] = "write" /\ cur[c].req.kind = "ViewL2Book")
           => cur[c].resp.l2 = cur[c].serial_l2
    /\ (\A c \in Mutators : pc[c] = "write")
         => (book = serial.book /\ minted = serial.minted)

\* a snapshot of a non-empty book is in hand on one connection while another
\* connection's place request waits for the lock
C16_Witness ==
    \E c1, c2 \in Conns :
      /\ pc[c1] = "write" /\ cur[c1].req.kind = "ViewL2Book"
      /\ cur[c1].resp.l2 # EmptyL2
      /\ pc[c2] = "lock" /\ cur[c2].req.kind = "PlaceOrder"

\* C17: no network I/O inside the critical section: a task that is writing its
\* response holds no guard of the book's lock.
C17_NoIoUnderLock ==
    \A c \in Conns :
      pc[c] = "write" => c \notin lock.writers \cup lock.readers

\* C18: the lines of one place_order are printed contiguously, never mixed with
\* those of another; while they are being printed the orders they name still
\* rest, untouched, and the fills follow the order of the walk; once
\* place_order takes the matched orders off the book, and when it has
\* returned, its block is complete.
C18_FillsContiguous ==
    /\ \A i, j, k \in 1..Len(stdout) :
         (i < j /\ j < k /\ stdout[i].by = stdout[k].by)
           => stdout[j].by = stdout[i].by
    /\ \A c \in Conns :
         pc[c] = "log" =>
           LET block == PrintedBy(cur[c].uuid) \o cur[c].lines
               fill == FillLines(block, cur[c].uuid)
               walk == WalkIds(book, cur[c].req.order_type)
           IN /\ Len(fill) <= Len(walk)
              /\ \A i \in 1..Len(fill) :
                   /\ fill[i].id = walk[i]
                   /\ fill[i].id \in DOMAIN book.order_id_map
                   /\ fill[i].id \notin book.order_removed_set
              /\ cur[c].uuid \notin DOMAIN book.order_id_map \cup book.order_removed_set
    /\ \A c \in Conns :
         (pc[c] \in {"update", "rest"}
            \/ (pc[c] = "write" /\ cur[c].resp.kind = "PlaceOk")) =>
           LET block == PrintedBy(cur[c].uuid)
           IN /\ cur[c].lines = <<>>
              /\ pc[c] = "write" => cur[c].resp.order_id = cur[c].uuid
              /\ block # <<>> =>
                   /\ block[1] = Marker("== Clearing House Orders ==")
                   /\ block[Len(block)] = Marker("== End of Orders ==")
                   /\ block[2].id = cur[c].uuid
                   /\ Len(block) >= 4
                   /\ SumFill(FillLines(block, cur[c].uuid)) = block[2].qty

\* a place_order is part-way through printing its block while another
\* connection's place request waits for the lock
C18_Witness ==
    \E c1, c2 \in Conns :
      /\ pc[c1] = "log"
      /\ Len(PrintedBy(cur[c1].uuid)) >= 2
      /\ cur[c1].lines # <<>>
      /\ pc[c2] = "lock" /\ cur[c2].req.kind = "PlaceOrder"

\* C20: on one connection a request is read only when the one before it has
\* its response, so the responses are written one for each request read and in
\* the order the requests were read; the response being written is of the kind
\* of the request in hand; a connection that ended on a failed read has every
\* request answered.
C20_OneResponsePerRequest ==
    \A c \in Conns :
      /\ unanswered[c] = IF pc[c] \in {"read", "closed"} THEN 0 ELSE 1
      /\ pc[c] \in {"lock", "call", "log", "update", "rest", "write"}
           => cur[c].req.kind \in {"PlaceOrder", "CancelOrder", "ViewL2Book"}
      /\ pc[c] = "write" => cur[c].resp.kind \in ResponseKinds(cur[c].req.kind)
      /\ pc[c] \in {"read", "closed", "aborted"} => cur[c] = Idle

\* one connection has ended on a failed read while another, the third request
\* in hand, is about to write the response to a cancel
C20_Witness ==
    \E c1, c2 \in Conns :
      /\ pc[c1] = "closed"
      /\ pc[c2] = "write" /\ cur[c2].resp.kind = "CancelErr"
      /\ cur[c2].req.order_id \in book.order_removed_set
      /\ nread = 3

\* C25: a place_order fills at most one resting order in part.  The loop of
\* removals takes every fully matched order off the book and leaves the
\* partially matched one as it was; the partial update comes after it, changes
\* the quantity of that one order, the last the walk visited (named by the
\* last fill line, and first in the walk of what is left), and nothing else;
\* no other step changes a resting order; and when an order is filled in part
\* nothing remains of the aggressor, which does not rest.
C25_OnePartialLast ==
    [][\A c \in Conns :
         LET order_type == cur[c].req.order_type
             outcome == cur[c].outcome
             opposite == OppositeTree(book, order_type)
             opposite1 == OppositeTree(book', order_type)
             full_ids == {outcome.full_order[k][1] : k \in 1..Len(outcome.full_order)}
             fill == FillLines(PrintedBy(cur[c].uuid), cur[c].uuid)
         IN
         /\ TakeStep(c) =>
              /\ Changed = {}
              /\ RestingIds(opposite1) = RestingIds(opposite) \ full_ids
              /\ Cardinality(full_ids) = Len(outcome.full_order)
              /\ full_ids \subseteq RestingIds(opposite)
              /\ full_ids \subseteq book'.order_removed_set
              /\ full_ids \cap DOMAIN book'.order_id_map = {}
              /\ outcome.partial_order # None =>
                   /\ get_order(opposite1, unwrap(outcome.partial_order).order_key)
                        = get_order(opposite, unwrap(outcome.partial_order).order_key)
                   /\ is_some(get_order(opposite1, unwrap(outcome.partial_order).order_key))
         /\ UpdateStep(c) =>
              /\ Cardinality(Changed) <= 1
              /\ (Changed # {}) = (outcome.partial_order # None)
              /\ RestingIds(opposite1) = RestingIds(opposite)
              /\ OwnTree(book', order_type) = OwnTree(book, order_type)
              /\ book'.order_id_map = book.order_id_map
              /\ book'.order_removed_set = book.order_removed_set
              /\ \A id \in Changed :
                   LET o == OrderOf(AllOrders(book), id)
                       o1 == OrderOf(AllOrders(book'), id)
                   IN /\ id \in RestingIds(opposite)
                      /\ o1.price = o.price
                      /\ 0 < o1.quantity /\ o1.quantity < o.quantity
                      /\ fill # <<>> /\ fill[Len(fill)].id = id
                      /\ fill[Len(fill)].qty = o.quantity - o1.quantity
                      /\ WalkIds(book, order_type)[1] = id
                      /\ cur'[c].left = 0
         /\ RestStep(c) =>
              /\ Changed = {}
              /\ outcome.partial_order # None =>
                   /\ cur[c].left = 0
                   /\ book'.bid_tree = book.bid_tree
                   /\ book'.ask_tree = book.ask_tree
                   /\ cur[c].uuid \notin DOMAIN book'.order_id_map
                   /\ cur[c].uuid \in book'.order_removed_set
         /\ ~UpdateStep(c) /\ pc'[c] # pc[c] => Changed = {}
      ]_vars

\* a place_order that matched one resting order in full and the next in part
\* has removed the first, updated the second and is about to end
C25_Witness ==
    \E c \in Conns :
      /\ pc[c] = "rest"
      /\ cur[c].outcome.partial_order # None
      /\ Len(cur[c].outcome.full_order) >= 1
      /\ cur[c].left = 0
      /\ \E id \in DOMAIN book.order_id_map :
           KeyLeadsTo(OppositeTree(book, cur[c].req.order_type),
                      unwrap(cur[c].outcome.partial_order).order_key, id)

\* ---------------------------------------------------------------- total_quantity in its word
\* the order an accepted place_order left on the book joined a level that was
\* there before the call: own is the tree of its side before the call
JoinedLevel(own) ==
    /\ PlaceStep
    /\ ret'.order_id \in DOMAIN book'.order_id_map
    /\ ret'.price \in DOMAIN own.tree

\* C31: a level's total_quantity never overflows: whenever an accepted
\* place_order adds the quantity its order rests with to the total_quantity of
\* a level, the sum of the two is within the word, and the total afterwards
\* is that sum.
C31_TotalNeverWraps ==
    [][JoinedLevel(OwnTree(book, ret'.order_type)) =>
         LET own == OwnTree(book, ret'.order_type)
             own1 == OwnTree(book', ret'.order_type)
             rested == unwrap(get_order(own1,
                                        book'.order_id_map[ret'.order_id].order_key))
         IN
         /\ LevelTotalAt(own, ret'.price) + rested.quantity < U32_MODULUS
         /\ LevelTotalAt(own1, ret'.price)
              = LevelTotalAt(own, ret'.price) + rested.quantity
      ]_vars
====
